---- MODULE Spec2Model ----
(***************************************************************************)
(* yosemite: SAMv3 client library.                                         *)
(*                                                                         *)
(* The module models the protocol engine (proto/parser.rs, error.rs,       *)
(* proto/session.rs, proto/router.rs, proto/listener.rs) as operators over *)
(* values and drives it from nine specifications:                          *)
(*   Spec        any caller of SessionController: every operation may be   *)
(*               called in every state with every bounded input;           *)
(*   FacadeSpec  Session<Stream> (session/mod.rs): new, connect,           *)
(*               connect_with_options, accept and forward, statement by    *)
(*               statement, against a router that may answer anything.     *)
(*               With it the calls of RouterApi (asynchronous/router.rs)   *)
(*               and the drop of an operation or of the session;           *)
(*   DetachedSpec  the futures of connect_detached beside the session;     *)
(*   WireSpec    the reads of accept on its connection, byte by byte;      *)
(*   RouterSpec  any caller of RouterApiController;                        *)
(*   ListenerSpec  Listener (asynchronous/listener.rs): Listener::new and  *)
(*               the accept futures poll_next drives, await by await;      *)
(*   DatagramSpec  send_to and recv_from of the datagram styles, with the  *)
(*               bytes of a packet kept as runs;                           *)
(*   PrimarySpec  create_subsession of Session<Primary>, await by await,   *)
(*               and connect on a stream subsession;                       *)
(*   ReturnSpec  one stream operation from its first read until it         *)
(*               returns, and ReturnLive, the same under weak fairness.    *)
(*                                                                         *)
(* Text is modelled as a sequence of atoms (strings); the text itself is   *)
(* the concatenation of the atoms.  Every space and newline a format       *)
(* string writes is an atom of its own.                                    *)
(*                                                                         *)
(* A record constructor lists its fields in the order TLC keeps them (the  *)
(* order in which the names first occur in the module), so that a record   *)
(* is built in normal form and no worker reorders one another reads.       *)
(***************************************************************************)
EXTENDS Integers, Sequences, FiniteSets, TLC

VARIABLES
    controller,        \* SessionController { options, state } under test
    child,             \* controller built by new_for_subsession, or NoController
    last,              \* the last call made on `controller` and what it returned
    debug_assertions,  \* whether the build has debug assertions (debug_assert!)
    info_enabled,      \* whether a tracing subscriber records INFO events
    context,           \* facade: the style context of Session<Stream>
    pc,                \* facade: the statement the running facade operation is at
    op,                \* facade: the running facade operation and its arguments
    stream,            \* facade: index in `conns` of the operation's TcpStream
    conns,             \* facade: every TCP connection opened so far, with its traffic
    returned,          \* facade: what the last facade operation returned
    api,               \* facade: the RouterApiController of the running RouterApi call
    detached,          \* facade: the futures connect_detached has returned
    wire,              \* the bytes of one accepted connection and who has read them
    listener,          \* Listener { controller, future } and what it has yielded
    datagram,          \* a datagram session: its socket traffic and the last call on it
    subsessions        \* primary session: the sessions create_subsession has built

vars == <<controller, child, last, debug_assertions, info_enabled,
          context, pc, op, stream, conns, returned, api, detached, wire,
          listener, datagram, subsessions>>

buildVars == <<debug_assertions, info_enabled>>
facadeVars == <<context, pc, op, stream, conns, returned>>
styleVars == <<listener, datagram, subsessions>>
otherVars == <<api, detached, wire, listener, datagram, subsessions>>

-----------------------------------------------------------------------------
(* Bounds of the model.                                                     *)

\* TCP connections the facade may open in one behaviour.
MaxConns == 3

\* Futures connect_detached may create in one behaviour.
MaxDetached == 2

\* TCP connections the session itself may open beside detached futures.
MaxBeside == 2

\* Bytes the router sends on an accepted connection.
MaxWire == 5

\* Accepts a Listener may issue in one behaviour.
MaxAccepts == 3

\* Calls of create_subsession on a primary session in one behaviour.
MaxSubsessions == 2

\* vec![0u8; 0xfff]: the read buffer of a Repliable session.
BufferLen == 4095

\* [0u8; 1024]: the buffer accept peeks the line of its peer into.
PeekLen == 1024

-----------------------------------------------------------------------------
(* Values.                                                                  *)

None == "<none>"

\* Destinations the router may report for a created session.  The first is
\* the one of the repository's tests, "AAA" is shorter than ten bytes.
Destinations == {"I2P_DESTINATION", "AAA", "OTHER_I2P_DESTINATION"}

\* Remote destinations a caller may connect to.
RemoteDestinations == {"host.i2p", "BBB"}

\* Session styles a caller may hand to create_session.
Styles == {"STREAM", "RAW", "DATAGRAM", "PRIMARY"}

SP == " "
NL == "\n"

-----------------------------------------------------------------------------
(* error.rs                                                                 *)

\* I2pError values; message is None except for I2pError(Some(message)).
I2pError(kind, message) == [kind |-> kind, message |-> message]

\* impl TryFrom<(&str, Option<&str>)> for I2pError: [ok, error].
I2pErrorTryFrom(result, message) ==
    CASE result = "CANT_REACH_PEER" -> [ok |-> TRUE, error |-> I2pError("CantReachPeer", None)]
      [] result = "DUPLICATED_DEST" -> [ok |-> TRUE, error |-> I2pError("DuplicatedDest", None)]
      [] result = "I2P_ERROR"       -> [ok |-> TRUE, error |-> I2pError("I2pError", message)]
      [] result = "INVALID_KEY"     -> [ok |-> TRUE, error |-> I2pError("InvalidKey", None)]
      [] result = "KEY_NOT_FOUND"   -> [ok |-> TRUE, error |-> I2pError("KeyNotFound", None)]
      [] result = "PEER_NOT_FOUND"  -> [ok |-> TRUE, error |-> I2pError("PeerNotFound", None)]
      [] result = "TIMEOUT"         -> [ok |-> TRUE, error |-> I2pError("Timeout", None)]
      [] OTHER                      -> [ok |-> FALSE, error |-> I2pError(None, None)]

NoError == I2pError(None, None)

\* What a controller call returns: Ok(command bytes), Ok(()) or a &str, an
\* Err(ProtocolError), or the call's abort (panic).
Result(tag, error, command, value) ==
    [error |-> error, tag |-> tag, command |-> command, value |-> value]

Ok(command) == Result("Ok", NoError, command, None)
OkUnit == Result("Ok", NoError, <<>>, None)
OkValue(value) == Result("Ok", NoError, <<>>, value)
InvalidState == Result("InvalidState", NoError, <<>>, None)
InvalidMessage == Result("InvalidMessage", NoError, <<>>, None)
Router(error) == Result("Router", error, <<>>, None)
Panic == Result("Panic", NoError, <<>>, None)

-----------------------------------------------------------------------------
(* proto/parser.rs                                                          *)
(*                                                                         *)
(* A reply line is [command, subcommand, pairs]: its first word, its       *)
(* second word (None when the line has none) and the KEY=value words that  *)
(* follow, in order.                                                       *)

Line(command, subcommand, pairs) ==
    [command |-> command, subcommand |-> subcommand, pairs |-> pairs]

\* HashMap::get on the map collected from `pairs`: a later pair replaces an
\* earlier one of the same key.
HasKey(pairs, key) == \E i \in 1..Len(pairs) : pairs[i][1] = key

Get(pairs, key) ==
    IF HasKey(pairs, key)
    THEN LET i == CHOOSE i \in 1..Len(pairs) :
                      /\ pairs[i][1] = key
                      /\ \A j \in (i + 1)..Len(pairs) : pairs[j][1] # key
         IN  pairs[i][2]
    ELSE None

\* Response values.  `variant` None is "no parse" (Response::parse returned
\* None); `variant` Panic is the abort of todo!().
Response(variant, ok, value, error) ==
    [ok |-> ok, error |-> error, value |-> value, variant |-> variant,
     private_key |-> None]

NoParse == Response(None, FALSE, None, NoError)
ParsePanic == Response("Panic", FALSE, None, NoError)

DestinationGeneration(destination, private_key) ==
    [ok |-> TRUE, error |-> NoError, value |-> destination,
     variant |-> "DestinationGeneration", private_key |-> private_key]

\* An Err(I2pError::try_from(..)?) field: no parse when the token is no error.
ErrorResponse(variant, pairs, result) ==
    LET e == I2pErrorTryFrom(result, Get(pairs, "MESSAGE"))
    IN  IF e.ok THEN Response(variant, FALSE, None, e.error) ELSE NoParse

\* impl TryFrom<ParsedCommand> for Response
ResponseTryFrom(command, subcommand, pairs) ==
    CASE command = "HELLO" /\ subcommand = "REPLY" ->
            IF HasKey(pairs, "VERSION")
            THEN Response("Hello", TRUE, Get(pairs, "VERSION"), NoError)
            ELSE IF ~HasKey(pairs, "RESULT")
                 THEN NoParse
                 ELSE ErrorResponse("Hello", pairs, Get(pairs, "RESULT"))
      [] command = "SESSION" /\ subcommand = "STATUS" ->
            IF HasKey(pairs, "DESTINATION")
            THEN Response("Session", TRUE, Get(pairs, "DESTINATION"), NoError)
            ELSE IF ~HasKey(pairs, "RESULT")
                 THEN NoParse
                 ELSE IF Get(pairs, "RESULT") = "OK" /\ HasKey(pairs, "ID")
                      THEN Response("Subsession", TRUE, Get(pairs, "ID"), NoError)
                      ELSE ErrorResponse("Session", pairs, Get(pairs, "RESULT"))
      [] command = "STREAM" /\ subcommand = "STATUS" ->
            IF ~HasKey(pairs, "RESULT")
            THEN NoParse
            ELSE IF Get(pairs, "RESULT") = "OK"
                 THEN Response("Stream", TRUE, None, NoError)
                 ELSE ErrorResponse("Stream", pairs, Get(pairs, "RESULT"))
      [] command = "NAMING" /\ subcommand = "REPLY" ->
            IF ~HasKey(pairs, "RESULT")
            THEN NoParse
            ELSE IF Get(pairs, "RESULT") = "OK"
                 THEN IF HasKey(pairs, "VALUE")
                      THEN Response("NamingLookup", TRUE, Get(pairs, "VALUE"), NoError)
                      ELSE NoParse
                 ELSE ErrorResponse("NamingLookup", pairs, Get(pairs, "RESULT"))
      [] command = "DEST" /\ subcommand = "REPLY" ->
            IF HasKey(pairs, "PUB") /\ HasKey(pairs, "PRIV")
            THEN DestinationGeneration(Get(pairs, "PUB"), Get(pairs, "PRIV"))
            ELSE NoParse
      [] OTHER -> ParsePanic

RecognisedCommands == {"HELLO", "SESSION", "STREAM", "NAMING", "DEST"}
RecognisedSubcommands == {"REPLY", "STATUS"}

\* Response::parse_inner and Response::parse: the first word must be one of
\* the five commands; the second is the subcommand when it is REPLY or
\* STATUS; any other second word is no subcommand and, not being KEY=value,
\* ends the pairs before the first.
Parse(line) ==
    IF line.command \notin RecognisedCommands
    THEN NoParse
    ELSE IF line.subcommand \in RecognisedSubcommands
         THEN ResponseTryFrom(line.command, line.subcommand, line.pairs)
         ELSE IF line.subcommand = None
              THEN ResponseTryFrom(line.command, None, line.pairs)
              ELSE ResponseTryFrom(line.command, None, <<>>)

-----------------------------------------------------------------------------
(* options.rs, as proto/session.rs reads it                                 *)

Transient == [kind |-> "Transient", private_key |-> None]
Persistent(private_key) == [kind |-> "Persistent", private_key |-> private_key]

\* SessionOptions: the fields SessionController reads.  publish_lease_set,
\* destination and silent_forward vary; the others hold their defaults.
SessionOptions(nickname, destination, publish_lease_set, silent_forward) ==
    [destination |-> destination, nickname |-> nickname,
     publish_lease_set |-> publish_lease_set, silent_forward |-> silent_forward,
     inbound_len |-> 3, inbound_qty |-> 2, outbound_len |-> 3, outbound_qty |-> 2,
     datagram_port |-> 0, datagram_host |-> "127.0.0.1", from_port |-> 0, to_port |-> 0,
     protocol |-> 18, header |-> FALSE]

OptionSet ==
    { SessionOptions("N", d, p, s) :
        d \in {Transient, Persistent("PRIVATE_KEY")}, p \in BOOLEAN, s \in BOOLEAN }

\* StreamOptions
StreamOptions(src_port, dst_port) == [src_port |-> src_port, dst_port |-> dst_port]
DefaultStreamOptions == StreamOptions(0, 0)

\* style::private::SessionParameters as the session styles build it
\* (datagram.rs: create_session); `options` is a sequence of <<key, value>>.
SessionParameters(style) ==
    [style |-> style,
     options |-> IF style \in {"DATAGRAM", "RAW"}
                 THEN << <<"PORT", "0">>, <<"HOST", "127.0.0.1">> >>
                 ELSE <<>>]

\* Display of bool
BoolToString(b) == IF b THEN "true" ELSE "false"

-----------------------------------------------------------------------------
(* proto/session.rs: SessionState, StreamState                              *)

StreamState(tag, kind) == [kind |-> kind, tag |-> tag]
StreamUninitialized == StreamState("Uninitialized", None)
StreamHandshaking == StreamState("Handshaking", None)
StreamHandshaked == StreamState("Handshaked", None)
Pending(kind) == StreamState("Pending", kind)

StreamKinds == {"Accept", "Connect", "Forward"}

SessionState(tag, destination, stream_state) ==
    [tag |-> tag, destination |-> destination, stream_state |-> stream_state]
NoStreamState == StreamState(None, None)
Uninitialized == SessionState("Uninitialized", None, NoStreamState)
Handshaking == SessionState("Handshaking", None, NoStreamState)
Handshaked == SessionState("Handshaked", None, NoStreamState)
SessionCreatePending == SessionState("SessionCreatePending", None, NoStreamState)
SubsessionCreatePending(destination) ==
    SessionState("SubsessionCreatePending", destination, NoStreamState)
Active(destination, stream_state) == SessionState("Active", destination, stream_state)
Poisoned == SessionState("Poisoned", None, NoStreamState)

\* SessionController { options, state }
SessionController(options, state) == [options |-> options, state |-> state]
NoController ==
    SessionController(SessionOptions(None, Transient, TRUE, FALSE),
                      SessionState(None, None, NoStreamState))

\* A call's outcome: the controller afterwards and what the call returned.
Outcome(self, state, ret) == [self |-> SessionController(self.options, state), ret |-> ret]

\* The invalid-state arm putting the controller back to Uninitialized.
InvalidStateArmResetting(self) ==
    Outcome(self, Uninitialized, IF debug_assertions THEN Panic ELSE InvalidState)

\* The arm every operation takes from a state it does not accept: the state
\* was replaced by Poisoned, debug_assert!(false) aborts a build with debug
\* assertions, any other build returns InvalidState.
InvalidStateArm(self) ==
    Outcome(self, Poisoned, IF debug_assertions THEN Panic ELSE InvalidState)

\* SessionController::new
new(options) == SessionController(options, Uninitialized)

HelloVersion == <<"HELLO", SP, "VERSION", NL>>

\* SessionController::handshake_session
handshake_session(self) ==
    IF self.state = Uninitialized
    THEN Outcome(self, Handshaking, Ok(HelloVersion))
    ELSE InvalidStateArm(self)

\* for (key, value) in parameters.options { command += "{key}={value} " }
RECURSIVE KeyValues(_)
KeyValues(options) ==
    IF options = <<>>
    THEN <<>>
    ELSE <<Head(options)[1] \o "=", Head(options)[2], SP>> \o KeyValues(Tail(options))

DestinationToken(self) ==
    IF self.options.destination.kind = "Transient"
    THEN <<"DESTINATION=", "TRANSIENT", SP>>
    ELSE <<"DESTINATION=", self.options.destination.private_key, SP>>

DontPublishLeaseSet(self) ==
    IF ~self.options.publish_lease_set
    THEN <<"i2cp.dontPublishLeaseSet=", "true", SP>>
    ELSE <<>>

TunnelTokens(self) ==
    <<"inbound.length=", ToString(self.options.inbound_len), SP,
      "inbound.quantity=", ToString(self.options.inbound_qty), SP,
      "outbound.length=", ToString(self.options.outbound_len), SP,
      "outbound.quantity=", ToString(self.options.outbound_qty), SP>>

SignatureTokens == <<"SIGNATURE_TYPE=", "7", SP, "i2cp.leaseSetEncType=", "4", NL>>

SessionCreatePrefix(self, parameters) ==
    <<"SESSION", SP, "CREATE", SP, "STYLE=", parameters.style, SP,
      "ID=", self.options.nickname, SP>>

\* The STREAM arm of create_session
StreamSessionCommand(self, parameters) ==
    SessionCreatePrefix(self, parameters) \o KeyValues(parameters.options)
        \o DestinationToken(self) \o DontPublishLeaseSet(self)
        \o TunnelTokens(self) \o SignatureTokens

\* The RAW arm of create_session
RawSessionCommand(self, parameters) ==
    SessionCreatePrefix(self, parameters) \o KeyValues(parameters.options)
        \o <<"PORT=", ToString(self.options.datagram_port), SP,
             "HOST=", self.options.datagram_host, SP,
             "FROM_PORT=", ToString(self.options.from_port), SP,
             "TO_PORT=", ToString(self.options.to_port), SP,
             "PROTOCOL=", ToString(self.options.protocol), SP,
             "HEADER=", BoolToString(self.options.header)>>
        \o DontPublishLeaseSet(self) \o TunnelTokens(self) \o SignatureTokens

\* The DATAGRAM arm of create_session
DatagramSessionCommand(self, parameters) ==
    SessionCreatePrefix(self, parameters) \o KeyValues(parameters.options)
        \o DestinationToken(self)
        \o <<"PORT=", ToString(self.options.datagram_port), SP,
             "HOST=", self.options.datagram_host, SP,
             "FROM_PORT=", ToString(self.options.from_port), SP,
             "TO_PORT=", ToString(self.options.to_port)>>
        \o DontPublishLeaseSet(self) \o TunnelTokens(self) \o SignatureTokens

\* SessionController::create_session: the state becomes SessionCreatePending
\* before the style is matched.
create_session(self, parameters) ==
    IF self.state = Handshaked
    THEN Outcome(self, SessionCreatePending,
            CASE parameters.style = "STREAM" -> Ok(StreamSessionCommand(self, parameters))
              [] parameters.style = "RAW" -> Ok(RawSessionCommand(self, parameters))
              [] parameters.style = "DATAGRAM" -> Ok(DatagramSessionCommand(self, parameters))
              [] OTHER -> InvalidMessage)
    ELSE InvalidStateArm(self)

\* create_subsession keeping the subsession's nickname where the destination
\* belongs.
create_subsession_nickname(self, nickname, parameters) ==
    IF self.state.tag = "Active"
    THEN Outcome(self, SubsessionCreatePending(nickname), Ok(<<"SESSION", SP, "ADD", NL>>))
    ELSE InvalidStateArm(self)

\* SessionController::create_subsession
create_subsession(self, nickname, parameters) ==
    IF self.state.tag = "Active"
    THEN Outcome(self, SubsessionCreatePending(self.state.destination),
            Ok(<<"SESSION", SP, "ADD", SP, "STYLE=", parameters.style, SP,
                 "ID=", nickname, SP>> \o KeyValues(parameters.options) \o <<NL>>))
    ELSE InvalidStateArm(self)

\* handshake_stream accepting every stream sub-state of Active.
handshake_stream_any_active(self) ==
    IF self.state.tag = "Active"
    THEN Outcome(self, Active(self.state.destination, StreamHandshaking), Ok(HelloVersion))
    ELSE InvalidStateArm(self)

\* SessionController::handshake_stream
handshake_stream(self) ==
    IF self.state.tag = "Active" /\ self.state.stream_state = StreamUninitialized
    THEN Outcome(self, Active(self.state.destination, StreamHandshaking), Ok(HelloVersion))
    ELSE InvalidStateArm(self)

\* &destination[..10] of the session's own destination, evaluated when the
\* INFO event of create_stream is recorded: aborts on fewer than ten bytes.
LogPrefixLen == 10
TruncationAborts(destination) == info_enabled /\ Len(destination) < LogPrefixLen

\* SessionController::create_stream
create_stream(self, remote_destination, options) ==
    IF self.state.tag = "Active" /\ self.state.stream_state = StreamHandshaked
    THEN IF TruncationAborts(self.state.destination)
         THEN Outcome(self, Poisoned, Panic)
         ELSE Outcome(self, Active(self.state.destination, Pending("Connect")),
                Ok(<<"STREAM", SP, "CONNECT", SP, "ID=", self.options.nickname, SP,
                     "DESTINATION=", remote_destination, SP,
                     "FROM_PORT=", ToString(options.src_port), SP,
                     "TO_PORT=", ToString(options.dst_port), SP,
                     "SILENT=", "false", NL>>))
    ELSE InvalidStateArm(self)

\* SessionController::accept_stream
accept_stream(self) ==
    IF self.state.tag = "Active" /\ self.state.stream_state = StreamHandshaked
    THEN Outcome(self, Active(self.state.destination, Pending("Accept")),
            Ok(<<"STREAM", SP, "ACCEPT", SP, "ID=", self.options.nickname, SP,
                 "SILENT=", "false", NL>>))
    ELSE InvalidStateArm(self)

\* SessionController::forward_stream
forward_stream(self, port) ==
    IF self.state.tag = "Active" /\ self.state.stream_state = StreamHandshaked
    THEN Outcome(self, Active(self.state.destination, Pending("Forward")),
            Ok(<<"STREAM", SP, "FORWARD", SP, "ID=", self.options.nickname, SP,
                 "PORT=", ToString(port), SP,
                 "SILENT=", BoolToString(self.options.silent_forward), NL>>))
    ELSE InvalidStateArm(self)

\* The arms of an awaiting state with a response of another variant reported
\* like a line that does not parse.
UnexpectedResponseInvalidMessage(self, r, variant, on_error) ==
    IF r.variant = "Panic"
    THEN Outcome(self, Poisoned, Panic)
    ELSE IF r.variant = variant /\ ~r.ok
         THEN Outcome(self, on_error, Router(r.error))
         ELSE Outcome(self, Poisoned, InvalidMessage)

\* The arms of an awaiting state with a router error taken for the reply
\* that was awaited.
UnexpectedResponseSwallowsError(self, r, variant, on_error) ==
    IF r.variant = "Panic"
    THEN Outcome(self, Poisoned, Panic)
    ELSE IF r.variant = variant /\ ~r.ok
         THEN Outcome(self, on_error, OkUnit)
         ELSE IF r.variant = None
              THEN Outcome(self, Poisoned, InvalidMessage)
              ELSE Outcome(self, Poisoned, InvalidState)

\* The three arms every awaiting state of handle_response shares: a router
\* error, no parse, a response of another variant.  Each returns with the
\* state left Poisoned, except where `on_error` restores one.
UnexpectedResponse(self, r, variant, on_error) ==
    IF r.variant = "Panic"
    THEN Outcome(self, Poisoned, Panic)
    ELSE IF r.variant = variant /\ ~r.ok
         THEN Outcome(self, on_error, Router(r.error))
         ELSE IF r.variant = None
              THEN Outcome(self, Poisoned, InvalidMessage)
              ELSE Outcome(self, Poisoned, InvalidState)

\* SessionController::handle_response
handle_response(self, response) ==
    LET st == self.state
        r == Parse(response)
    IN  CASE st = Handshaking ->
                IF r.variant = "Hello" /\ r.ok
                THEN Outcome(self, Handshaked, OkUnit)
                ELSE UnexpectedResponse(self, r, "Hello", Poisoned)
          [] st = SessionCreatePending ->
                IF r.variant = "Session" /\ r.ok
                THEN Outcome(self, Active(r.value, StreamUninitialized), OkUnit)
                ELSE UnexpectedResponse(self, r, "Session", Poisoned)
          [] st.tag = "SubsessionCreatePending" ->
                IF r.variant = "Subsession" /\ r.ok
                THEN Outcome(self, Active(st.destination, StreamUninitialized), OkUnit)
                ELSE UnexpectedResponse(self, r, "Subsession", Poisoned)
          [] st.tag = "Active" /\ st.stream_state = StreamHandshaking ->
                IF r.variant = "Hello" /\ r.ok
                THEN Outcome(self, Active(st.destination, StreamHandshaked), OkUnit)
                ELSE UnexpectedResponse(self, r, "Hello", Poisoned)
          [] st.tag = "Active" /\ st.stream_state.tag = "Pending" ->
                IF r.variant = "Stream" /\ r.ok
                THEN Outcome(self, Active(st.destination, StreamUninitialized), OkUnit)
                ELSE UnexpectedResponse(self, r, "Stream",
                        Active(st.destination, StreamUninitialized))
          [] OTHER -> InvalidStateArm(self)

\* SessionController::destination: aborts unless the state is Active.
destination(self) ==
    IF self.state.tag = "Active"
    THEN Outcome(self, self.state, OkValue(self.state.destination))
    ELSE Outcome(self, self.state, Panic)

\* new_for_subsession starting the child before its stream handshake state
\* is reset.
new_for_subsession_handshaked(self, options) ==
    IF self.state.tag = "Active" /\ self.state.stream_state = StreamUninitialized
    THEN SessionController(options, Active(self.state.destination, StreamHandshaked))
    ELSE NoController

\* SessionController::new_for_subsession: the controller it returns, or
\* NoController where unreachable!() aborts.
new_for_subsession(self, options) ==
    IF self.state.tag = "Active" /\ self.state.stream_state = StreamUninitialized
    THEN SessionController(options, Active(self.state.destination, StreamUninitialized))
    ELSE NoController

-----------------------------------------------------------------------------
(* proto/router.rs: RouterApiController                                     *)

\* RouterApiControllerState; destination and private_key are None in the
\* variants that hold none.
RouterApiControllerState(tag, d, private_key) ==
    [tag |-> tag, private_key |-> private_key, destination |-> d]
ApiUninitialized == RouterApiControllerState("Uninitialized", None, None)
ApiHandshaking == RouterApiControllerState("Handshaking", None, None)
ApiHandshaked == RouterApiControllerState("Handshaked", None, None)
AwaitingLookupResponse == RouterApiControllerState("AwaitingLookupResponse", None, None)
AwaitingDestinationResponse ==
    RouterApiControllerState("AwaitingDestinationResponse", None, None)
LookupSucceeded(d) == RouterApiControllerState("LookupSucceeded", d, None)
DestinationGenerated(d, private_key) ==
    RouterApiControllerState("DestinationGenerated", d, private_key)
ApiPoisoned == RouterApiControllerState("Poisoned", None, None)

\* A call's outcome on RouterApiController { state }.
ApiOutcome(state, ret) == [self |-> state, ret |-> ret]

\* The `state =>` arm of every RouterApiController operation.
ApiInvalidStateArm ==
    ApiOutcome(ApiPoisoned, IF debug_assertions THEN Panic ELSE InvalidState)

\* RouterApiController::handshake_router_api
handshake_router_api(self) ==
    IF self = ApiUninitialized
    THEN ApiOutcome(ApiHandshaking, Ok(HelloVersion))
    ELSE ApiInvalidStateArm

\* RouterApiController::lookup_name
lookup_name(self, name) ==
    IF self = ApiHandshaked
    THEN ApiOutcome(AwaitingLookupResponse,
            Ok(<<"NAMING", SP, "LOOKUP", SP, "NAME=", name, NL>>))
    ELSE ApiInvalidStateArm

\* RouterApiController::generate_destination
generate_destination(self) ==
    IF self = ApiHandshaked
    THEN ApiOutcome(AwaitingDestinationResponse,
            Ok(<<"DEST", SP, "GENERATE", SP, "SIGNATURE_TYPE=", "7", NL>>))
    ELSE ApiInvalidStateArm

\* The arms of RouterApiController::handle_response that return early: the
\* state stays Poisoned.
ApiUnexpectedResponse(r, variant) ==
    IF r.variant = "Panic"
    THEN ApiOutcome(ApiPoisoned, Panic)
    ELSE IF r.variant = variant /\ ~r.ok
         THEN ApiOutcome(ApiPoisoned, Router(r.error))
         ELSE IF r.variant = None
              THEN ApiOutcome(ApiPoisoned, InvalidMessage)
              ELSE ApiOutcome(ApiPoisoned, InvalidState)

\* RouterApiController::handle_response
router_handle_response(self, response) ==
    LET r == Parse(response)
    IN  CASE self = ApiHandshaking ->
                IF r.variant = "Hello" /\ r.ok
                THEN ApiOutcome(ApiHandshaked, OkUnit)
                ELSE ApiUnexpectedResponse(r, "Hello")
          [] self = AwaitingLookupResponse ->
                IF r.variant = "NamingLookup" /\ r.ok
                THEN ApiOutcome(LookupSucceeded(r.value), OkUnit)
                ELSE ApiUnexpectedResponse(r, "NamingLookup")
          [] self = AwaitingDestinationResponse ->
                IF r.variant = "DestinationGeneration"
                THEN ApiOutcome(DestinationGenerated(r.value, r.private_key), OkUnit)
                ELSE ApiUnexpectedResponse(r, "DestinationGeneration")
          [] OTHER -> ApiInvalidStateArm

\* destination() reading the state it has left behind.
router_destination_left(self) ==
    IF self.tag = "LookupSucceeded"
    THEN ApiOutcome(ApiUninitialized, OkValue(ApiUninitialized.destination))
    ELSE ApiOutcome(ApiUninitialized, Panic)

\* RouterApiController::destination: the state is taken (Uninitialized is
\* left) and the call aborts unless it was LookupSucceeded.
router_destination(self) ==
    IF self.tag = "LookupSucceeded"
    THEN ApiOutcome(ApiUninitialized, OkValue(self.destination))
    ELSE ApiOutcome(ApiUninitialized, Panic)

\* The (String, String) generated_destination returns.
OkKeys(d, private_key) ==
    [error |-> NoError, tag |-> "Ok", command |-> <<>>, value |-> d,
     private_key |-> private_key]

\* generated_destination() returning the pair in the other order.
generated_destination_swapped(self) ==
    IF self.tag = "DestinationGenerated"
    THEN ApiOutcome(ApiUninitialized, OkKeys(self.private_key, self.destination))
    ELSE ApiOutcome(ApiUninitialized, Panic)

\* RouterApiController::generated_destination
generated_destination(self) ==
    IF self.tag = "DestinationGenerated"
    THEN ApiOutcome(ApiUninitialized, OkKeys(self.destination, self.private_key))
    ELSE ApiOutcome(ApiUninitialized, Panic)

-----------------------------------------------------------------------------
(* proto/listener.rs: ListenerController.  Its SessionState is the one of   *)
(* proto/session.rs without the subsession state, with ListenerState        *)
(* (Uninitialized, Handshaking, Handshaked, ConnectPending, Active) as the  *)
(* stream sub-state of Active.                                              *)

ConnectPending == StreamState("ConnectPending", None)
ListenerActive == StreamState("Active", None)

\* A call's outcome on ListenerController { options, state }.
ListenerOutcome(state, ret) == [self |-> state, ret |-> ret]

\* The `state =>` arm of every ListenerController operation.
ListenerInvalidStateArm ==
    ListenerOutcome(Poisoned, IF debug_assertions THEN Panic ELSE InvalidState)

\* ListenerController::handshake_session
listener_handshake_session(self) ==
    IF self = Uninitialized
    THEN ListenerOutcome(Handshaking, Ok(HelloVersion))
    ELSE ListenerInvalidStateArm

\* ListenerController::create_transient_session
create_transient_session(self, nickname) ==
    IF self = Handshaked
    THEN ListenerOutcome(SessionCreatePending,
            Ok(<<"SESSION", SP, "CREATE", SP, "STYLE=", "STREAM", SP, "ID=", nickname, SP,
                 "DESTINATION=", "TRANSIENT", SP, "i2cp.leaseSetEncType=", "4", NL>>))
    ELSE ListenerInvalidStateArm

\* ListenerController::handshake_listener
handshake_listener(self) ==
    IF self.tag = "Active" /\ self.stream_state = StreamUninitialized
    THEN ListenerOutcome(Active(self.destination, StreamHandshaking), Ok(HelloVersion))
    ELSE ListenerInvalidStateArm

\* ListenerController::accept_stream
listener_accept_stream(self, nickname) ==
    IF self.tag = "Active" /\ self.stream_state = StreamHandshaked
    THEN ListenerOutcome(Active(self.destination, ConnectPending),
            Ok(<<"STREAM", SP, "ACCEPT", SP, "ID=", nickname, SP, "SILENT=", "false", NL>>))
    ELSE ListenerInvalidStateArm

\* handle_response: the arms of an awaiting state that return an error; each
\* leaves Poisoned.
ListenerUnexpectedResponse(r, variant) ==
    IF r.variant = "Panic"
    THEN ListenerOutcome(Poisoned, Panic)
    ELSE IF r.variant = variant /\ ~r.ok
         THEN ListenerOutcome(Poisoned, Router(r.error))
         ELSE IF r.variant = None
              THEN ListenerOutcome(Poisoned, InvalidMessage)
              ELSE ListenerOutcome(Poisoned, InvalidState)

\* ListenerController::handle_response
listener_handle_response(self, response) ==
    LET r == Parse(response)
    IN  CASE self = Handshaking ->
                IF r.variant = "Hello" /\ r.ok
                THEN ListenerOutcome(Handshaked, OkUnit)
                ELSE ListenerUnexpectedResponse(r, "Hello")
          [] self = SessionCreatePending ->
                IF r.variant = "Session" /\ r.ok
                THEN ListenerOutcome(Active(r.value, StreamUninitialized), OkUnit)
                ELSE ListenerUnexpectedResponse(r, "Session")
          [] self.tag = "Active" /\ self.stream_state = StreamHandshaking ->
                IF r.variant = "Hello" /\ r.ok
                THEN ListenerOutcome(Active(self.destination, StreamHandshaked), OkUnit)
                ELSE ListenerUnexpectedResponse(r, "Hello")
          [] self.tag = "Active" /\ self.stream_state = ConnectPending ->
                IF r.variant = "Stream" /\ r.ok
                THEN ListenerOutcome(Active(self.destination, ListenerActive), OkUnit)
                ELSE ListenerUnexpectedResponse(r, "Stream")
          [] OTHER -> ListenerInvalidStateArm

-----------------------------------------------------------------------------
(* Reply lines the router may send.                                         *)

NoLine == Line(None, None, <<>>)

HelloOk == Line("HELLO", "REPLY", << <<"RESULT", "OK">>, <<"VERSION", "3.3">> >>)
HelloError ==
    Line("HELLO", "REPLY", << <<"RESULT", "I2P_ERROR">>, <<"MESSAGE", "router error">> >>)
HelloNoVersion == Line("HELLO", "REPLY", << <<"RESULT", "OK">> >>)
HelloErrorVersion ==
    Line("HELLO", "REPLY", << <<"RESULT", "I2P_ERROR">>, <<"VERSION", "3.3">> >>)
HelloStatus == Line("HELLO", "STATUS", << <<"RESULT", "OK">> >>)
HelloAlone == Line("HELLO", None, <<>>)
SessionOk(d) == Line("SESSION", "STATUS", << <<"RESULT", "OK">>, <<"DESTINATION", d>> >>)
SessionError == Line("SESSION", "STATUS", << <<"RESULT", "DUPLICATED_DEST">> >>)
SubsessionOk ==
    Line("SESSION", "STATUS",
         << <<"RESULT", "OK">>, <<"ID", "child">>, <<"MESSAGE", "ADD child">> >>)
StreamOk == Line("STREAM", "STATUS", << <<"RESULT", "OK">> >>)
StreamError(token) ==
    Line("STREAM", "STATUS", << <<"RESULT", token>>, <<"MESSAGE", "Connection failed">> >>)
StreamUnknownResult == Line("STREAM", "STATUS", << <<"RESULT", "UNKNOWN_ERROR">> >>)
NamingOk == Line("NAMING", "REPLY", << <<"RESULT", "OK">>, <<"NAME", "host.i2p">>, <<"VALUE", "ZZZ">> >>)
DestReply == Line("DEST", "REPLY", << <<"PUB", "D">>, <<"PRIV", "P">> >>)
TestCommand == Line("TEST", "COMMAND", << <<"KEY", "VALUE">> >>)
HelloUnknownResult == Line("HELLO", "REPLY", << <<"RESULT", "UNKNOWN_ERROR">> >>)
HelloUnknownVersion ==
    Line("HELLO", "REPLY", << <<"RESULT", "UNKNOWN_ERROR">>, <<"VERSION", "3.3">> >>)
SessionUnknownResult == Line("SESSION", "STATUS", << <<"RESULT", "UNKNOWN_ERROR">> >>)
SessionUnknownDestination ==
    Line("SESSION", "STATUS",
         << <<"RESULT", "UNKNOWN_ERROR">>, <<"DESTINATION", "I2P_DESTINATION">> >>)
NamingUnknownResult == Line("NAMING", "REPLY", << <<"RESULT", "UNKNOWN_ERROR">> >>)
NamingError == Line("NAMING", "REPLY", << <<"RESULT", "KEY_NOT_FOUND">> >>)
NamingValue(z) ==
    Line("NAMING", "REPLY", << <<"RESULT", "OK">>, <<"NAME", "host.i2p">>, <<"VALUE", z>> >>)
NamingNoValue == Line("NAMING", "REPLY", << <<"RESULT", "OK">>, <<"NAME", "host.i2p">> >>)
DestKeys(d, private_key) == Line("DEST", "REPLY", << <<"PUB", d>>, <<"PRIV", private_key>> >>)
DestNoPriv(d) == Line("DEST", "REPLY", << <<"PUB", d>> >>)
DestNoPub(private_key) == Line("DEST", "REPLY", << <<"PRIV", private_key>> >>)
DestResult == Line("DEST", "REPLY", << <<"RESULT", "OK">> >>)
StreamReply == Line("STREAM", "REPLY", << <<"RESULT", "OK">> >>)
StreamNoResult == Line("STREAM", "STATUS", <<>>)

Responses ==
    {HelloOk, HelloError, HelloNoVersion, HelloErrorVersion, HelloStatus, HelloAlone,
     SessionError, SubsessionOk, StreamOk, StreamError("CANT_REACH_PEER"),
     StreamError("TIMEOUT"), StreamUnknownResult, NamingOk, DestReply, TestCommand,
     HelloUnknownResult, HelloUnknownVersion, SessionUnknownResult,
     SessionUnknownDestination, NamingUnknownResult, StreamReply, StreamNoResult}
        \cup { SessionOk(d) : d \in Destinations }

-----------------------------------------------------------------------------
(* Spec: a caller of SessionController.                                     *)

\* The record of a call: the operation, its arguments, the state it was made
\* in, what it returned, whether an earlier stream operation of the session
\* was answered with a router error, and whether the router has confirmed a
\* subsession before.
Call(name, style, remote, response, pre, ret) ==
    [op |-> name, style |-> style, ret |-> ret, response |-> response,
     remote |-> remote, pre |-> pre,
     after_error |-> \/ last.after_error
                     \/ /\ last.op = "handle_response"
                        /\ last.pre.stream_state.tag = "Pending"
                        /\ last.ret.tag = "Router",
     after_subsession |-> \/ last.after_subsession
                          \/ /\ last.op = "handle_response"
                             /\ last.pre.tag = "SubsessionCreatePending"
                             /\ last.ret.tag = "Ok"]

NoCall ==
    [op |-> None, style |-> None, ret |-> OkUnit, response |-> NoLine, remote |-> None,
     pre |-> Uninitialized, after_error |-> FALSE, after_subsession |-> FALSE]

\* style::Stream { stream, _forwarding_stream }: indices in conns, 0 for None.
StreamContext(stream_, forwarding_stream) ==
    [stream |-> stream_, forwarding_stream |-> forwarding_stream]
NoContext == StreamContext(0, 0)

\* store_forwarded leaving the context as it was.
store_forwarded_nowhere(self, stream_) == self

\* style::Stream::store_forwarded
store_forwarded(self, stream_) == [self EXCEPT !.forwarding_stream = stream_]

\* A facade operation in progress: its name, its arguments and the command
\* its pending write_all is writing.
Operation(name, remote, options, port, command) ==
    [command |-> command, destination |-> remote, options |-> options, port |-> port,
     name |-> name]
NoOp == Operation(None, None, DefaultStreamOptions, 0, <<>>)

\* No accepted connection is being read.
Wire(reader, sent, pending, socket, lines, open) ==
    [reader |-> reader, sent |-> sent, pending |-> pending, socket |-> socket,
     lines |-> lines, open |-> open]
NoWire == Wire(None, <<>>, <<>>, <<>>, <<>>, FALSE)

\* One stream operation on its connection: the replies the router still
\* sends, the bytes in the socket, the lines read and what it returned.
Reading(name, reader, at, delivered, pending, socket, lines, open, ret) ==
    [pc |-> at, op |-> name, ret |-> ret, reader |-> reader, pending |-> pending,
     socket |-> socket, lines |-> lines, open |-> open, delivered |-> delivered]

\* The style context of a subsession: its command stream (index in conns, 0
\* for None) and its UDP socket (0 for a style without one).
SubsessionContext(style, stream_, socket) ==
    [stream |-> stream_, style |-> style, socket |-> socket]
NoSubsessionContext == SubsessionContext(None, 0, 0)

\* Session<S> { context, controller } returned by create_subsession.
ChildSession(built, self) == [controller |-> self, context |-> built]

\* The subsessions of a primary session: the context of the one being
\* created, the sessions returned, and the calls of create_subsession made.
Subsessions(built, sessions, started) ==
    [sessions |-> sessions, started |-> started, session |-> built]
NoSubsessions == Subsessions(NoSubsessionContext, <<>>, 0)

\* The future of one accept: the await it is suspended at, its controller's
\* state and its output.
AcceptFuture(at, state, result) == [controller |-> state, pc |-> at, result |-> result]
NoFuture == AcceptFuture(None, Uninitialized, None)

\* Listener { controller, future }: `pc` is the await Listener::new is
\* suspended at, then "ready"; yielded counts the streams poll_next returned,
\* issued the accept futures built, ended says that poll_next returned None,
\* aborted that it was polled again after that.
ListenerOf(at, state, future, yielded, issued, ended, aborted) ==
    [controller |-> state, pc |-> at, future |-> future, yielded |-> yielded,
     issued |-> issued, ended |-> ended, aborted |-> aborted]
NoListener == ListenerOf(None, Uninitialized, NoFuture, 0, 0, FALSE, FALSE)

\* Bytes of a datagram: a sequence of runs, each `n` bytes of one kind.  A
\* word of text is a run of length one.
Run(sym, n) == [sym |-> sym, n |-> n]
Str(word) == <<Run(word, 1)>>

\* A byte that is no part of any UTF-8 text.
Invalid == "0xff"

\* The zero bytes a buffer is created with.
Zeroes(n) == IF n = 0 THEN <<>> ELSE <<Run("0", n)>>

RECURSIVE RLen(_)
RLen(b) == IF b = <<>> THEN 0 ELSE Head(b).n + RLen(Tail(b))

\* The same bytes without empty runs and with adjacent runs of one kind
\* merged, so that equal byte strings are equal values.
RECURSIVE Norm(_)
Norm(b) ==
    IF b = <<>>
    THEN <<>>
    ELSE IF Head(b).n = 0
         THEN Norm(Tail(b))
         ELSE LET t == Norm(Tail(b))
              IN  IF t # <<>> /\ Head(t).sym = Head(b).sym
                  THEN <<Run(Head(b).sym, Head(b).n + Head(t).n)>> \o Tail(t)
                  ELSE <<Head(b)>> \o t

\* b[..k]
RECURSIVE RTake(_, _)
RTake(b, k) ==
    IF b = <<>> \/ k <= 0
    THEN <<>>
    ELSE IF Head(b).n <= k
         THEN <<Head(b)>> \o RTake(Tail(b), k - Head(b).n)
         ELSE <<Run(Head(b).sym, k)>>

\* b[k..]
RECURSIVE RDrop(_, _)
RDrop(b, k) ==
    IF b = <<>> \/ k <= 0
    THEN b
    ELSE IF Head(b).n <= k
         THEN RDrop(Tail(b), k - Head(b).n)
         ELSE <<Run(Head(b).sym, Head(b).n - k)>> \o Tail(b)

\* b.iter().position(|byte| byte == sym): -1 for None.
RECURSIVE RPosition(_, _)
RPosition(b, sym) ==
    IF b = <<>>
    THEN -1
    ELSE IF Head(b).sym = sym /\ Head(b).n > 0
         THEN 0
         ELSE LET r == RPosition(Tail(b), sym)
              IN  IF r = -1 THEN -1 ELSE Head(b).n + r

\* std::str::from_utf8(b).is_ok()
Utf8(b) == \A i \in 1..Len(b) : b[i].sym # Invalid \/ b[i].n = 0

\* What a call on a datagram session returned: Ok(()), Ok((len, destination))
\* or an error.
DatagramResult(tag, len, d) == [tag |-> tag, destination |-> d, len |-> len]

\* The options a datagram session reads.
DatagramOptions(nickname, samv3_udp_port) ==
    [nickname |-> nickname, samv3_udp_port |-> samv3_udp_port]

\* One UdpSocket::send_to: the address and the bytes.
Sent(to, body) == [to |-> to, body |-> body]

\* A datagram session and the last call on it: the call and the session's
\* style and options; the call's destination argument (send_to) or the
\* source destination of the packet the socket received (recv_from), the
\* packet's header text, the payload, the packet as the socket received it,
\* the caller's buffer after the call, the result, and what the call made
\* the socket send.
DatagramOf(name, style, options, peer, header, payload, packet, buf, ret, sent) ==
    [op |-> name, header |-> header, style |-> style, options |-> options, ret |-> ret,
     sent |-> sent, peer |-> peer, payload |-> payload, packet |-> packet, buf |-> buf]
NoDatagram ==
    DatagramOf(None, None, DatagramOptions(<<>>, 0), <<>>, <<>>, <<>>, <<>>, <<>>,
               DatagramResult(None, 0, <<>>), <<>>)

FacadeIdle ==
    /\ context = NoContext
    /\ pc = "idle"
    /\ op = NoOp
    /\ stream = 0
    /\ conns = <<>>
    /\ returned = None

Init ==
    /\ debug_assertions \in BOOLEAN
    /\ info_enabled \in BOOLEAN
    /\ \E options \in OptionSet : controller = new(options)
    /\ child = NoController
    /\ last = NoCall
    /\ FacadeIdle
    /\ api = ApiUninitialized
    /\ detached = <<>>
    /\ listener = NoListener
    /\ subsessions = NoSubsessions
    /\ datagram = NoDatagram
    /\ wire = NoWire

\* One call on the controller: `out` is the operation's outcome.
Made(out) ==
    /\ controller' = out.self
    /\ UNCHANGED <<child, buildVars, facadeVars, otherVars>>

CallHandshakeSession ==
    \E out \in {handshake_session(controller)} :
        /\ Made(out)
        /\ last' = Call("handshake_session", None, None, NoLine, controller.state, out.ret)

CallCreateSession ==
    \E style \in Styles :
    \E out \in {create_session(controller, SessionParameters(style))} :
        /\ Made(out)
        /\ last' = Call("create_session", style, None, NoLine, controller.state, out.ret)

CallCreateSubsession ==
    \E style \in Styles \ {"PRIMARY"} :
    \E out \in {create_subsession(controller, "child", SessionParameters(style))} :
        /\ Made(out)
        /\ last' = Call("create_subsession", style, None, NoLine, controller.state, out.ret)

CallHandshakeStream ==
    \E out \in {handshake_stream(controller)} :
        /\ Made(out)
        /\ last' = Call("handshake_stream", None, None, NoLine, controller.state, out.ret)

CallCreateStream ==
    \E remote \in RemoteDestinations :
    \E out \in {create_stream(controller, remote, DefaultStreamOptions)} :
        /\ Made(out)
        /\ last' = Call("create_stream", None, remote, NoLine, controller.state, out.ret)

CallAcceptStream ==
    \E out \in {accept_stream(controller)} :
        /\ Made(out)
        /\ last' = Call("accept_stream", None, None, NoLine, controller.state, out.ret)

CallForwardStream ==
    \E out \in {forward_stream(controller, 8080)} :
        /\ Made(out)
        /\ last' = Call("forward_stream", None, None, NoLine, controller.state, out.ret)

CallHandleResponse ==
    \E response \in Responses :
    \E out \in {handle_response(controller, response)} :
        /\ Made(out)
        /\ last' = Call("handle_response", None, None, response, controller.state, out.ret)

CallDestination ==
    \E out \in {destination(controller)} :
        /\ Made(out)
        /\ last' = Call("destination", None, None, NoLine, controller.state, out.ret)

\* new_for_subsession(options) on the parent: the child replaces the previous
\* one, unless the call aborts.
CallNewForSubsession ==
    LET built == new_for_subsession(controller,
                    SessionOptions("child", Transient, TRUE, FALSE))
    IN  /\ child' = IF built = NoController THEN child ELSE built
        /\ last' = Call("new_for_subsession", None, None, NoLine, controller.state,
                        IF built = NoController THEN Panic ELSE OkUnit)
        /\ UNCHANGED <<controller, buildVars, facadeVars, otherVars>>

Next ==
    \/ CallHandshakeSession
    \/ CallCreateSession
    \/ CallCreateSubsession
    \/ CallHandshakeStream
    \/ CallCreateStream
    \/ CallAcceptStream
    \/ CallForwardStream
    \/ CallHandleResponse
    \/ CallDestination
    \/ CallNewForSubsession

Spec == Init /\ [][Next]_vars

-----------------------------------------------------------------------------
(* FacadeSpec: Session<Stream> of asynchronous/session/mod.rs (and, with    *)
(* the same statements, synchronous/session/mod.rs).  pc names the await    *)
(* the operation is suspended at; an action runs from one await to the      *)
(* next, or to the operation's return.                                      *)

\* A TCP connection to the router: who opened it, who holds it now ("op"
\* the running operation, "session", "caller", or "closed"), everything
\* written to and read from it, in order, and what the operation that opened
\* it returned (None while it runs).
Conn(opened_by, holder, traffic) ==
    [result |-> None, opened_by |-> opened_by, holder |-> holder, traffic |-> traffic]
Written(command) == [command |-> command, line |-> NoLine, dir |-> "write"]
Read(line) == [command |-> <<>>, line |-> line, dir |-> "read"]

\* The line after STREAM STATUS on an accepted connection.
PeerLine == Line("PEER_DESTINATION", None, <<>>)

\* What a read of one line may deliver: a reply, or on end of file the bytes
\* before it, here none (NoLine).
ReadLines ==
    {HelloOk, HelloError, HelloAlone, SessionOk("AAA"), SessionOk("I2P_DESTINATION"),
     StreamOk, StreamError("CANT_REACH_PEER"), NoLine}

\* The options Session::new is called with.
FacadeOptions == { SessionOptions("N", Transient, TRUE, s) : s \in BOOLEAN }

FacadeInit ==
    /\ debug_assertions \in BOOLEAN
    /\ info_enabled \in BOOLEAN
    /\ \E options \in FacadeOptions : controller = new(options)
    /\ child = NoController
    /\ last = NoCall
    /\ context = NoContext
    /\ pc = "new_connect"
    /\ op = Operation("new", None, DefaultStreamOptions, 0, <<>>)
    /\ stream = 0
    /\ conns = <<>>
    /\ returned = None
    /\ api = ApiUninitialized
    /\ detached = <<>>
    /\ listener = NoListener
    /\ subsessions = NoSubsessions
    /\ datagram = NoDatagram
    /\ wire = NoWire

Traffic(cs, i, event) == [cs EXCEPT ![i].traffic = Append(@, event)]
Hold(cs, i, holder) == IF i = 0 THEN cs ELSE [cs EXCEPT ![i].holder = holder]
Finish(cs, i, holder, tag) ==
    IF i = 0 THEN cs ELSE [cs EXCEPT ![i].holder = holder, ![i].result = tag]

\* The operation returns `tag`; its TcpStream goes to `holder`.  A failed
\* Session::new leaves no session.
Return(cs, tag, holder) ==
    /\ returned' = tag
    /\ conns' = Finish(cs, stream', holder, tag)
    /\ pc' = IF op.name = "new" /\ tag # "Ok" THEN "failed" ELSE "idle"
    /\ op' = NoOp

\* S::new(options): TcpStream::connect, then handshake_session()? and the
\* start of write_command.
NewConnect ==
    /\ pc = "new_connect"
    /\ UNCHANGED <<child, last, buildVars, otherVars>>
    /\ \/ /\ stream' = 0
          /\ Return(conns, "IoError", "closed")
          /\ UNCHANGED <<controller, context>>
       \/ \E out \in {handshake_session(controller)},
             cs \in {Append(conns, Conn("new", "session", <<>>))} :
              /\ controller' = out.self
              /\ context' = StreamContext(Len(cs), 0)
              /\ stream' = Len(cs)
              /\ IF out.ret.tag = "Ok"
                 THEN /\ conns' = cs
                      /\ op' = [op EXCEPT !.command = out.ret.command]
                      /\ pc' = "new_write_hello"
                      /\ UNCHANGED returned
                 ELSE Return(cs, out.ret.tag, "closed")

\* write_all completes: the command is on the wire, or the write failed.
WriteDone ==
    /\ pc \in {"new_write_hello", "new_write_create", "write_hello", "write_stream",
              "api_write_hello", "api_write_command"}
    /\ UNCHANGED <<controller, child, last, buildVars, otherVars, context, stream>>
    /\ \/ Return(conns, "IoError", "closed")
       \/ /\ conns' = Traffic(conns, stream, Written(op.command))
          /\ pc' = CASE pc = "new_write_hello" -> "new_read_hello"
                     [] pc = "new_write_create" -> "new_read_status"
                     [] pc = "write_hello" -> "read_hello"
                     [] pc = "write_stream" -> "read_status"
                     [] pc = "api_write_hello" -> "api_read_hello"
                     [] pc = "api_write_command" -> "api_read_reply"
          /\ UNCHANGED <<op, returned>>

\* read_command completes in Session::new after HELLO VERSION:
\* handle_response(&response)?, create_session(context.create_session())?
NewReadHello ==
    /\ pc = "new_read_hello"
    /\ UNCHANGED <<child, last, buildVars, otherVars, context, stream>>
    /\ \/ /\ Return(conns, "IoError", "closed")
          /\ UNCHANGED controller
       \/ \E line \in ReadLines :
          \E cs \in {Traffic(conns, stream, Read(line))},
             handled \in {handle_response(controller, line)} :
          \E created \in {create_session(handled.self, SessionParameters("STREAM"))} :
                IF handled.ret.tag # "Ok"
                THEN /\ controller' = handled.self
                     /\ Return(cs, handled.ret.tag, "closed")
                ELSE /\ controller' = created.self
                     /\ IF created.ret.tag # "Ok"
                        THEN Return(cs, created.ret.tag, "closed")
                        ELSE /\ conns' = cs
                             /\ op' = [op EXCEPT !.command = created.ret.command]
                             /\ pc' = "new_write_create"
                             /\ UNCHANGED returned

\* read_command completes in Session::new after SESSION CREATE.
NewReadStatus ==
    /\ pc = "new_read_status"
    /\ UNCHANGED <<child, last, buildVars, otherVars, context, stream>>
    /\ \/ /\ Return(conns, "IoError", "closed")
          /\ UNCHANGED controller
       \/ \E line \in ReadLines :
          \E cs \in {Traffic(conns, stream, Read(line))},
             handled \in {handle_response(controller, line)} :
                /\ controller' = handled.self
                /\ Return(cs, handled.ret.tag,
                          IF handled.ret.tag = "Ok" THEN "session" ELSE "closed")

\* A stream operation is called on the session.
Start(operation) ==
    /\ op' = operation
    /\ pc' = "connect"
    /\ UNCHANGED <<controller, child, last, buildVars, otherVars, context, stream, conns, returned>>

StartConnect ==
    /\ pc = "idle"
    /\ Len(conns) < MaxConns
    /\ \E remote \in RemoteDestinations :
        Start(Operation("connect", remote, DefaultStreamOptions, 0, <<>>))

StartConnectWithOptions ==
    /\ pc = "idle"
    /\ Len(conns) < MaxConns
    /\ \E remote \in RemoteDestinations :
        Start(Operation("connect_with_options", remote, StreamOptions(1, 80), 0, <<>>))

StartAccept ==
    /\ pc = "idle"
    /\ Len(conns) < MaxConns
    /\ Start(Operation("accept", None, DefaultStreamOptions, 0, <<>>))

StartForward ==
    /\ pc = "idle"
    /\ Len(conns) < MaxConns
    /\ Start(Operation("forward", None, DefaultStreamOptions, 8080, <<>>))

\* TcpStream::connect completes, then handshake_stream()? and the start of
\* write_all.
TcpConnect ==
    /\ pc = "connect"
    /\ UNCHANGED <<child, last, buildVars, otherVars, context>>
    /\ \/ /\ stream' = 0
          /\ Return(conns, "IoError", "closed")
          /\ UNCHANGED controller
       \/ \E out \in {handshake_stream(controller)},
             cs \in {Append(conns, Conn(op.name, "op", <<>>))} :
              /\ controller' = out.self
              /\ stream' = Len(cs)
              /\ IF out.ret.tag = "Ok"
                 THEN /\ conns' = cs
                      /\ op' = [op EXCEPT !.command = out.ret.command]
                      /\ pc' = "write_hello"
                      /\ UNCHANGED returned
                 ELSE Return(cs, out.ret.tag, "closed")

\* Every stream operation issuing STREAM CONNECT.
StreamCommandConnect(self) == create_stream(self, "host.i2p", DefaultStreamOptions)

\* The STREAM command of the running operation.
StreamCommand(self) ==
    CASE op.name \in {"connect", "connect_with_options"} ->
            create_stream(self, op.destination, op.options)
      [] op.name = "accept" -> accept_stream(self)
      [] op.name = "forward" -> forward_stream(self, op.port)

\* read_response completes after HELLO VERSION: None (bytes that are not
\* UTF-8) is Malformed; else handle_response(&response)?, the STREAM
\* command and the start of its write_all.
ReadHello ==
    /\ pc = "read_hello"
    /\ UNCHANGED <<child, last, buildVars, otherVars, context, stream>>
    /\ \/ /\ Return(conns, "Malformed", "closed")
          /\ UNCHANGED controller
       \/ \E line \in ReadLines :
          \E cs \in {Traffic(conns, stream, Read(line))},
             handled \in {handle_response(controller, line)} :
          \E issued \in {StreamCommand(handled.self)} :
                IF handled.ret.tag # "Ok"
                THEN /\ controller' = handled.self
                     /\ Return(cs, handled.ret.tag, "closed")
                ELSE /\ controller' = issued.self
                     /\ IF issued.ret.tag # "Ok"
                        THEN Return(cs, issued.ret.tag, "closed")
                        ELSE /\ conns' = cs
                             /\ op' = [op EXCEPT !.command = issued.ret.command]
                             /\ pc' = "write_stream"
                             /\ UNCHANGED returned

\* read_response completes after the STREAM command: handle_response(..)?;
\* connect returns the stream, forward stores it in the context, accept
\* goes on to read the peer's destination.
ReadStatus ==
    /\ pc = "read_status"
    /\ UNCHANGED <<child, last, buildVars, otherVars, stream>>
    /\ \/ /\ Return(conns, "Malformed", "closed")
          /\ UNCHANGED <<controller, context>>
       \/ \E line \in ReadLines :
          \E cs \in {Traffic(conns, stream, Read(line))},
             handled \in {handle_response(controller, line)} :
                /\ controller' = handled.self
                /\ CASE handled.ret.tag # "Ok" ->
                            /\ Return(cs, handled.ret.tag, "closed")
                            /\ UNCHANGED context
                     [] handled.ret.tag = "Ok" /\ op.name = "accept" ->
                            /\ conns' = cs
                            /\ pc' = "read_destination"
                            /\ UNCHANGED <<op, returned, context>>
                     [] handled.ret.tag = "Ok" /\ op.name = "forward" ->
                            /\ context' = store_forwarded(context, stream)
                            /\ Return(Hold(cs, context.forwarding_stream, "closed"),
                                      "Ok", "session")
                     [] OTHER ->
                            /\ Return(cs, "Ok", "caller")
                            /\ UNCHANGED context

\* accept: read_response completes for the line holding the destination.
ReadDestination ==
    /\ pc = "read_destination"
    /\ UNCHANGED <<controller, child, last, buildVars, otherVars, context, stream>>
    /\ \/ Return(conns, "Malformed", "closed")
       \/ \E line \in {PeerLine, NoLine} :
            Return(Traffic(conns, stream, Read(line)), "Ok", "caller")

\* The future of a stream operation is dropped at one of its awaits: its
\* TcpStream, if it has one, is closed with it; the controller is the
\* session's and stays as the operation left it.
DropOperation ==
    /\ pc \in {"connect", "write_hello", "read_hello", "write_stream", "read_status",
              "read_destination"}
    /\ stream' = IF pc = "connect" THEN 0 ELSE stream
    /\ Return(conns, "Dropped", "closed")
    /\ UNCHANGED <<controller, child, last, buildVars, otherVars, context>>

\* The session is dropped: the TcpStreams its context holds are closed.
DropSession ==
    /\ pc = "idle"
    /\ pc' = "dropped"
    /\ conns' = [i \in DOMAIN conns |->
                    IF conns[i].holder = "session"
                    THEN [conns[i] EXCEPT !.holder = "closed"]
                    ELSE conns[i]]
    /\ context' = NoContext
    /\ UNCHANGED <<controller, child, last, buildVars, otherVars, op, stream, returned>>

\* What a read of one line may deliver to a RouterApi call.
ApiReadLines == {HelloOk, HelloError, NamingOk, NamingError, DestReply, NoLine}

\* RouterApi::lookup_name or generate_destination is called:
\* RouterApiController::new().
StartApi(operation) ==
    /\ op' = operation
    /\ pc' = "api_connect"
    /\ api' = ApiUninitialized
    /\ UNCHANGED <<controller, child, last, buildVars, detached, wire, styleVars, context, stream,
                   conns, returned>>

StartLookupName ==
    /\ pc = "idle"
    /\ Len(conns) < MaxConns
    /\ StartApi(Operation("lookup_name", "host.i2p", DefaultStreamOptions, 0, <<>>))

StartGenerateDestination ==
    /\ pc = "idle"
    /\ Len(conns) < MaxConns
    /\ StartApi(Operation("generate_destination", None, DefaultStreamOptions, 0, <<>>))

\* TcpStream::connect completes, then handshake_router_api()? and the start
\* of write_all.
ApiConnect ==
    /\ pc = "api_connect"
    /\ UNCHANGED <<controller, child, last, buildVars, detached, wire, styleVars, context>>
    /\ \/ /\ stream' = 0
          /\ Return(conns, "IoError", "closed")
          /\ UNCHANGED api
       \/ \E out \in {handshake_router_api(api)},
             cs \in {Append(conns, Conn(op.name, "op", <<>>))} :
              /\ api' = out.self
              /\ stream' = Len(cs)
              /\ IF out.ret.tag = "Ok"
                 THEN /\ conns' = cs
                      /\ op' = [op EXCEPT !.command = out.ret.command]
                      /\ pc' = "api_write_hello"
                      /\ UNCHANGED returned
                 ELSE Return(cs, out.ret.tag, "closed")

\* The command of the running RouterApi call.
ApiCommand(self) ==
    CASE op.name = "lookup_name" -> lookup_name(self, op.destination)
      [] op.name = "generate_destination" -> generate_destination(self)

\* read_response! completes after HELLO VERSION: handle_response(..)?, the
\* call's command and the start of its write_all.
ApiReadHello ==
    /\ pc = "api_read_hello"
    /\ UNCHANGED <<controller, child, last, buildVars, detached, wire, styleVars, context, stream>>
    /\ \/ /\ Return(conns, "IoError", "closed")
          /\ UNCHANGED api
       \/ \E line \in ApiReadLines :
          \E cs \in {Traffic(conns, stream, Read(line))},
             handled \in {router_handle_response(api, line)} :
          \E issued \in {ApiCommand(handled.self)} :
                IF handled.ret.tag # "Ok"
                THEN /\ api' = handled.self
                     /\ Return(cs, handled.ret.tag, "closed")
                ELSE /\ api' = issued.self
                     /\ IF issued.ret.tag # "Ok"
                        THEN Return(cs, issued.ret.tag, "closed")
                        ELSE /\ conns' = cs
                             /\ op' = [op EXCEPT !.command = issued.ret.command]
                             /\ pc' = "api_write_command"
                             /\ UNCHANGED returned

\* What the running RouterApi call takes from its controller at its end.
ApiResult(self) ==
    CASE op.name = "lookup_name" -> router_destination(self)
      [] op.name = "generate_destination" -> generated_destination(self)

\* read_response! completes after the call's command: handle_response(..)?
\* and Ok(controller.destination()); _session_stream is dropped with the
\* call's frame.
ApiReadReply ==
    /\ pc = "api_read_reply"
    /\ UNCHANGED <<controller, child, last, buildVars, detached, wire, styleVars, context, stream>>
    /\ \/ /\ Return(conns, "IoError", "closed")
          /\ UNCHANGED api
       \/ \E line \in ApiReadLines :
          \E cs \in {Traffic(conns, stream, Read(line))},
             handled \in {router_handle_response(api, line)} :
          \E taken \in {ApiResult(handled.self)} :
                IF handled.ret.tag # "Ok"
                THEN /\ api' = handled.self
                     /\ Return(cs, handled.ret.tag, "closed")
                ELSE /\ api' = taken.self
                     /\ Return(cs, taken.ret.tag, "closed")

FacadeNext ==
    \/ NewConnect
    \/ WriteDone
    \/ NewReadHello
    \/ NewReadStatus
    \/ StartConnect
    \/ StartConnectWithOptions
    \/ StartAccept
    \/ StartForward
    \/ TcpConnect
    \/ ReadHello
    \/ ReadStatus
    \/ ReadDestination
    \/ DropOperation
    \/ DropSession
    \/ StartLookupName
    \/ StartGenerateDestination
    \/ ApiConnect
    \/ ApiReadHello
    \/ ApiReadReply

FacadeSpec == FacadeInit /\ [][FacadeNext]_vars

-----------------------------------------------------------------------------
(* DetachedSpec: Session::new and connect as in FacadeSpec, with the        *)
(* futures of connect_detached and connect_detached_with_options.  A future *)
(* is polled, or dropped, at any time after its creation; detached[i].pc    *)
(* names the await it is suspended at.                                      *)

\* The future `async move { .. }`: the controller it works on, what it was
\* called with, its TcpStream and its output.
Detached(owner, self, remote, options) ==
    [controller |-> self, pc |-> "connect", stream |-> None, result |-> None,
     destination |-> remote, options |-> options, owner |-> owner]

\* A future that works on the session's controller.
connect_detached_borrowing(self, remote) ==
    Detached("session", self, remote, DefaultStreamOptions)

\* Session::connect_detached: `let mut controller = self.controller.clone()`.
connect_detached(self, remote) ==
    Detached("clone", self, remote, DefaultStreamOptions)

\* Session::connect_detached_with_options
connect_detached_with_options(self, remote, options) ==
    Detached("clone", self, remote, options)

\* The controller the statements of future f name.
ControllerOf(f) == IF f.owner = "clone" THEN f.controller ELSE controller

\* Future i goes on as f with its controller left as `self`.
Polled(i, f, self) ==
    /\ detached' = [detached EXCEPT
                        ![i] = IF f.owner = "clone"
                               THEN [f EXCEPT !.controller = self]
                               ELSE f]
    /\ controller' = IF detached[i].owner = "clone" THEN controller ELSE self
    /\ UNCHANGED <<child, last, buildVars, facadeVars, api, wire, styleVars>>

\* Future i completes with `tag`; its TcpStream goes to `holder`.
Completed(f, tag, holder) ==
    [f EXCEPT !.pc = "done", !.result = tag,
              !.stream = IF f.stream = None THEN None ELSE holder]

StartConnectDetached ==
    /\ pc = "idle"
    /\ Len(detached) < MaxDetached
    /\ detached' = Append(detached, connect_detached(controller, "BBB"))
    /\ UNCHANGED <<controller, child, last, buildVars, facadeVars, api, wire, styleVars>>

StartConnectDetachedWithOptions ==
    /\ pc = "idle"
    /\ Len(detached) < MaxDetached
    /\ detached' = Append(detached,
                    connect_detached_with_options(controller, "host.i2p",
                                                  StreamOptions(1, 80)))
    /\ UNCHANGED <<controller, child, last, buildVars, facadeVars, api, wire, styleVars>>

\* What a read of one line may deliver to a detached future.
DetachedReadLines == {HelloOk, StreamOk, StreamError("CANT_REACH_PEER"), NoLine}

\* TcpStream::connect completes in future i, then handshake_stream()? and
\* the start of write_all.
DetachedConnect ==
    \E i \in DOMAIN detached :
        /\ detached[i].pc = "connect"
        /\ \/ Polled(i, Completed(detached[i], "IoError", "closed"),
                      ControllerOf(detached[i]))
           \/ \E out \in {handshake_stream(ControllerOf(detached[i]))},
                 f \in {[detached[i] EXCEPT !.stream = "future"]} :
                Polled(i, IF out.ret.tag = "Ok"
                          THEN [f EXCEPT !.pc = "write_hello"]
                          ELSE Completed(f, out.ret.tag, "closed"),
                       out.self)

\* write_all completes in future i, or fails.
DetachedWriteDone ==
    \E i \in DOMAIN detached :
        /\ detached[i].pc \in {"write_hello", "write_stream"}
        /\ \/ Polled(i, Completed(detached[i], "IoError", "closed"),
                      ControllerOf(detached[i]))
           \/ Polled(i, [detached[i] EXCEPT
                            !.pc = IF @ = "write_hello" THEN "read_hello"
                                                         ELSE "read_status"],
                      ControllerOf(detached[i]))

\* read_response completes in future i after HELLO VERSION:
\* handle_response(..)?, create_stream(..)? and the start of write_all.
DetachedReadHello ==
    \E i \in DOMAIN detached :
        /\ detached[i].pc = "read_hello"
        /\ \/ Polled(i, Completed(detached[i], "Malformed", "closed"),
                      ControllerOf(detached[i]))
           \/ \E line \in DetachedReadLines :
              \E handled \in {handle_response(ControllerOf(detached[i]), line)} :
              \E issued \in {create_stream(handled.self, detached[i].destination,
                                           detached[i].options)} :
                    IF handled.ret.tag # "Ok"
                    THEN Polled(i, Completed(detached[i], handled.ret.tag, "closed"),
                                handled.self)
                    ELSE Polled(i, IF issued.ret.tag = "Ok"
                                   THEN [detached[i] EXCEPT !.pc = "write_stream"]
                                   ELSE Completed(detached[i], issued.ret.tag, "closed"),
                                issued.self)

\* read_response completes in future i after STREAM CONNECT:
\* handle_response(..)? and Ok(Stream::from_stream(stream, ..)).
DetachedReadStatus ==
    \E i \in DOMAIN detached :
        /\ detached[i].pc = "read_status"
        /\ \/ Polled(i, Completed(detached[i], "Malformed", "closed"),
                      ControllerOf(detached[i]))
           \/ \E line \in DetachedReadLines :
              \E handled \in {handle_response(ControllerOf(detached[i]), line)} :
                    Polled(i, IF handled.ret.tag = "Ok"
                              THEN Completed(detached[i], "Ok", "caller")
                              ELSE Completed(detached[i], handled.ret.tag, "closed"),
                           handled.self)

\* Future i is dropped before it completed.
DetachedDrop ==
    \E i \in DOMAIN detached :
        /\ detached[i].pc # "done"
        /\ Polled(i, Completed(detached[i], "Dropped", "closed"),
                  ControllerOf(detached[i]))

\* Session::connect called beside the detached futures.
ConnectBeside ==
    /\ Len(conns) < MaxBeside
    /\ StartConnect

DetachedNext ==
    \/ NewConnect
    \/ WriteDone
    \/ NewReadHello
    \/ NewReadStatus
    \/ ConnectBeside
    \/ TcpConnect
    \/ ReadHello
    \/ ReadStatus
    \/ StartConnectDetached
    \/ StartConnectDetachedWithOptions
    \/ DetachedConnect
    \/ DetachedWriteDone
    \/ DetachedReadHello
    \/ DetachedReadStatus
    \/ DetachedDrop

DetachedSpec == FacadeInit /\ [][DetachedNext]_vars

-----------------------------------------------------------------------------
(* WireSpec: the three reads of accept on its connection, byte by byte.     *)
(* wire.sent is what the router sends on the connection, wire.pending the   *)
(* part of it still on its way, wire.socket the bytes that have arrived and *)
(* were not taken from the socket, wire.lines what the reads returned.      *)
(* Session<Stream>::accept reads with read_response (asynchronous/mod.rs),  *)
(* Listener::accept_future with the macro read_response! (listener.rs).     *)

\* The sequences over S of at most n elements.
BoundedSeq(S, n) == UNION { [1..k -> S] : k \in 0..n }

\* A byte of a line or of the payload, and the newline.
WireBytes == {"b", NL}

\* The position of the first newline of s, 0 when it has none.
FirstNewline(s) ==
    IF \E k \in DOMAIN s : s[k] = NL
    THEN CHOOSE k \in DOMAIN s : s[k] = NL /\ \A j \in 1..(k - 1) : s[j] # NL
    ELSE 0

\* The bytes one read takes from the socket to find a line: through the
\* first newline, or everything when the connection ended without one.
ThroughNewline(s) == IF FirstNewline(s) = 0 THEN s ELSE SubSeq(s, 1, FirstNewline(s))

\* read_response: read_exact of one byte until a newline was pushed or the
\* read fails; the bytes read are returned.
read_response(w) ==
    [w EXCEPT !.lines = Append(@, ThroughNewline(w.socket)),
              !.socket = SubSeq(w.socket, Len(ThroughNewline(w.socket)) + 1,
                                Len(w.socket))]

\* read_response!: BufReader::new(stream), read_line, reader.into_inner().
\* The reader fills its buffer with the bytes the socket holds; the line is
\* returned and the rest of the buffer is dropped with the reader.
read_line(w) ==
    [w EXCEPT !.lines = Append(@, ThroughNewline(w.socket)),
              !.socket = <<>>]

WireInit ==
    /\ debug_assertions \in BOOLEAN
    /\ info_enabled \in BOOLEAN
    /\ \E options \in FacadeOptions : controller = new(options)
    /\ child = NoController
    /\ last = NoCall
    /\ FacadeIdle
    /\ api = ApiUninitialized
    /\ detached = <<>>
    /\ listener = NoListener
    /\ subsessions = NoSubsessions
    /\ datagram = NoDatagram
    /\ \E reader \in {"read_response", "read_response!"},
          sent \in BoundedSeq(WireBytes, MaxWire),
          open \in BOOLEAN :
            wire = Wire(reader, sent, sent, <<>>, <<>>, open)

\* The next n bytes of the router arrive.
WireDeliver ==
    /\ \E n \in 1..Len(wire.pending) :
        wire' = [wire EXCEPT !.socket = @ \o SubSeq(wire.pending, 1, n),
                             !.pending = SubSeq(@, n + 1, Len(@))]
    /\ UNCHANGED <<controller, child, last, buildVars, facadeVars, api, detached, styleVars>>

\* A read completes when a newline has arrived, or when the router has
\* closed the connection after its last byte.
WireReadable ==
    /\ Len(wire.lines) < 3
    /\ \/ FirstNewline(wire.socket) # 0
       \/ wire.pending = <<>> /\ ~wire.open

\* Session<Stream>::accept: one of its three read_response calls.
WireReadResponse ==
    /\ wire.reader = "read_response"
    /\ WireReadable
    /\ wire' = read_response(wire)
    /\ UNCHANGED <<controller, child, last, buildVars, facadeVars, api, detached, styleVars>>

\* Listener::accept_future: one of its three read_response! expansions.
WireReadLine ==
    /\ wire.reader = "read_response!"
    /\ WireReadable
    /\ wire' = read_line(wire)
    /\ UNCHANGED <<controller, child, last, buildVars, facadeVars, api, detached, styleVars>>

WireNext ==
    \/ WireDeliver
    \/ WireReadResponse
    \/ WireReadLine

WireSpec == WireInit /\ [][WireNext]_vars

-----------------------------------------------------------------------------
(* PrimarySpec: Session<Primary>::create_subsession (session/mod.rs), await  *)
(* by await, and the first steps of connect on a stream subsession.  The     *)
(* style context of the primary session (style/primary.rs) is not part of    *)
(* the sources: the session Session::<Primary>::new returns, and the         *)
(* connection its write_command and read_command use, are taken from the     *)
(* specification of the library.                                             *)

\* The styles a subsession may have and the style string of each.
SubsessionStyles == {"Stream", "Repliable", "Anonymous"}
StyleOf(style) ==
    CASE style = "Stream" -> "STREAM"
      [] style = "Repliable" -> "DATAGRAM"
      [] style = "Anonymous" -> "RAW"

\* The options create_subsession is called with.
SubsessionOptions == SessionOptions("child", Transient, TRUE, FALSE)

\* <S as Subsession>::new sharing the command stream of the primary session.
subsession_new_sharing(style, socket) ==
    SubsessionContext(style, 1, IF style = "Stream" THEN 0 ELSE socket)

\* <S as Subsession>::new: no command stream; the datagram styles bind a UDP
\* socket of their own.
subsession_new(style, socket) ==
    SubsessionContext(style, 0, IF style = "Stream" THEN 0 ELSE socket)

\* create_subsession building the child controller before the reply of the
\* router was handled.
create_subsession_reply_early(self, response, options) ==
    [child |-> new_for_subsession(self, options),
     self |-> handle_response(self, response).self,
     ret |-> IF new_for_subsession(self, options) = NoController THEN Panic ELSE OkUnit,
     parent |-> self.state, invoked |-> TRUE]

\* create_subsession after read_command: handle_response(&response)? and
\* then new_for_subsession(options) on the parent.  `parent` is the state
\* new_for_subsession found the parent in.
create_subsession_reply(self, response, options) ==
    LET out == handle_response(self, response)
    IN  IF out.ret.tag = "Ok"
        THEN [child |-> new_for_subsession(out.self, options), self |-> out.self,
              ret |-> IF new_for_subsession(out.self, options) = NoController
                      THEN Panic ELSE OkUnit, parent |-> out.self.state,
              invoked |-> TRUE]
        ELSE [child |-> NoController, self |-> out.self, ret |-> out.ret,
              parent |-> out.self.state, invoked |-> FALSE]

\* SESSION CREATE of a primary session.
PrimarySessionCommand(self) ==
    SessionCreatePrefix(self, SessionParameters("PRIMARY")) \o <<NL>>

\* write_command and read_command of the primary session's context: on its
\* own command stream.
primary_write_command(cs, self, command) == Traffic(cs, self.stream, Written(command))
primary_read_command(cs, self, response) == Traffic(cs, self.stream, Read(response))

\* Lines the router may answer SESSION ADD with; NoLine at the end of the
\* stream.
SubsessionLines == {SubsessionOk, SessionError, SessionOk("AAA"), HelloOk, NoLine}

\* The session Session::<Primary>::new has returned: its connection has
\* carried HELLO VERSION and SESSION CREATE and their replies.
PrimaryInit ==
    /\ debug_assertions \in BOOLEAN
    /\ info_enabled \in BOOLEAN
    /\ \E options \in FacadeOptions, d \in Destinations :
        /\ controller = SessionController(options, Active(d, StreamUninitialized))
        /\ conns = << [Conn("new", "session",
                            <<Written(HelloVersion), Read(HelloOk),
                              Written(PrimarySessionCommand(new(options))),
                              Read(SessionOk(d))>>) EXCEPT !.result = "Ok"] >>
    /\ child = NoController
    /\ last = NoCall
    /\ context = StreamContext(1, 0)
    /\ pc = "idle"
    /\ op = NoOp
    /\ stream = 0
    /\ returned = "Ok"
    /\ api = ApiUninitialized
    /\ detached = <<>>
    /\ wire = NoWire
    /\ listener = NoListener
    /\ datagram = NoDatagram
    /\ subsessions = NoSubsessions

\* create_subsession returns `ret`, or aborts.
PrimaryReturn(ret) ==
    /\ returned' = ret.tag
    /\ pc' = IF ret.tag = "Panic" THEN "aborted" ELSE "idle"
    /\ op' = NoOp

\* create_subsession up to its first write: <S as Subsession>::new(options)
\* with `?`, create_session(&session), controller.create_subsession(..)?
StartCreateSubsession ==
    /\ pc = "idle"
    /\ subsessions.started < MaxSubsessions
    /\ UNCHANGED <<child, buildVars, context, stream, conns, api, detached, wire, listener,
                   datagram>>
    /\ \E style \in SubsessionStyles :
        \/ /\ style # "Stream"
           /\ returned' = "IoError"
           /\ subsessions' = [subsessions EXCEPT !.started = @ + 1]
           /\ UNCHANGED <<controller, last, pc, op>>
        \/ \E built \in {subsession_new(style, subsessions.started + 1)} :
           \E out \in {create_subsession(controller, SubsessionOptions.nickname,
                                         SessionParameters(StyleOf(style)))} :
            /\ controller' = out.self
            /\ last' = Call("create_subsession", StyleOf(style), None, NoLine,
                            controller.state, out.ret)
            /\ IF out.ret.tag = "Ok"
               THEN /\ pc' = "subsession_write"
                    /\ op' = Operation("create_subsession", None, DefaultStreamOptions, 0,
                                       out.ret.command)
                    /\ subsessions' = [subsessions EXCEPT !.session = built,
                                                          !.started = @ + 1]
                    /\ UNCHANGED returned
               ELSE /\ PrimaryReturn(out.ret)
                    /\ subsessions' = [subsessions EXCEPT !.started = @ + 1]

\* self.context.write_command(&command).await?
PrimaryWriteDone ==
    /\ pc = "subsession_write"
    /\ UNCHANGED <<controller, child, last, buildVars, context, stream, api, detached, wire,
                   listener, datagram>>
    /\ \/ /\ returned' = "IoError"
          /\ pc' = "idle"
          /\ op' = NoOp
          /\ subsessions' = [subsessions EXCEPT !.session = NoSubsessionContext]
          /\ UNCHANGED conns
       \/ /\ conns' = primary_write_command(conns, context, op.command)
          /\ pc' = "subsession_read"
          /\ UNCHANGED <<op, returned, subsessions>>

\* self.context.read_command().await?, handle_response(&response)? and the
\* Session the call returns.
PrimaryReadReply ==
    /\ pc = "subsession_read"
    /\ UNCHANGED <<buildVars, context, stream, api, detached, wire, listener, datagram>>
    /\ \/ /\ returned' = "IoError"
          /\ pc' = "idle"
          /\ op' = NoOp
          /\ subsessions' = [subsessions EXCEPT !.session = NoSubsessionContext]
          /\ UNCHANGED <<controller, child, last, conns>>
       \/ \E response \in SubsessionLines :
          \E out \in {create_subsession_reply(controller, response, SubsessionOptions)} :
            /\ conns' = primary_read_command(conns, context, response)
            /\ controller' = out.self
            /\ last' = IF out.invoked
                       THEN Call("new_for_subsession", None, None, response, out.parent,
                                 out.ret)
                       ELSE Call("handle_response", None, None, response, controller.state,
                                 out.ret)
            /\ child' = IF out.child = NoController THEN child ELSE out.child
            /\ subsessions' =
                    [subsessions EXCEPT
                        !.session = NoSubsessionContext,
                        !.sessions = IF out.child = NoController
                                     THEN @
                                     ELSE Append(@, ChildSession(subsessions.session,
                                                                 out.child))]
            /\ PrimaryReturn(out.ret)

\* The future of create_subsession is dropped at one of its awaits.
PrimaryDrop ==
    /\ pc \in {"subsession_write", "subsession_read"}
    /\ pc' = "idle"
    /\ op' = NoOp
    /\ returned' = "Dropped"
    /\ subsessions' = [subsessions EXCEPT !.session = NoSubsessionContext]
    /\ UNCHANGED <<controller, child, last, buildVars, context, stream, conns, api, detached,
                   wire, listener, datagram>>

\* connect on a stream subsession, up to its first write: TcpStream::connect,
\* handshake_stream()? on the subsession's controller, write_all.
SubsessionConnect ==
    /\ pc # "aborted"
    /\ Len(conns) < MaxConns
    /\ \E i \in DOMAIN subsessions.sessions :
        /\ subsessions.sessions[i].context.style = "Stream"
        /\ \E out \in {handshake_stream(subsessions.sessions[i].controller)} :
            /\ conns' = Append(conns, Conn("connect", "subsession",
                                           IF out.ret.tag = "Ok"
                                           THEN <<Written(out.ret.command)>>
                                           ELSE <<>>))
            /\ subsessions' = [subsessions EXCEPT !.sessions[i].controller = out.self]
            /\ pc' = IF out.ret.tag = "Panic" THEN "aborted" ELSE pc
    /\ UNCHANGED <<controller, child, last, buildVars, context, op, stream, returned, api,
                   detached, wire, listener, datagram>>

PrimaryNext ==
    \/ StartCreateSubsession
    \/ PrimaryWriteDone
    \/ PrimaryReadReply
    \/ PrimaryDrop
    \/ SubsessionConnect

PrimarySpec == PrimaryInit /\ [][PrimaryNext]_vars

-----------------------------------------------------------------------------
(* ReturnSpec: one stream operation of the facade on its connection, from    *)
(* its first read until it returns.  Both revisions of the facade are        *)
(* modelled: session/mod.rs reads every line with read_response, session.rs  *)
(* reads the replies to its commands with read_response! and the line of     *)
(* the peer of accept with a loop of ready() and peek().  The router's       *)
(* reply to a command arrives after the command was written; the line of    *)
(* the peer of accept may arrive with the reply before it.  wire.pending is  *)
(* what the router still sends, reply by reply, and wire.open whether it     *)
(* keeps the connection open after that.                                     *)

\* The reads an operation makes before it returns Ok.
Reads(name) == IF name = "accept" THEN 3 ELSE 2

\* The bytes through the first newline, or all of them when there is none.
RThrough(b) == IF RPosition(b, NL) = -1 THEN b ELSE RTake(b, RPosition(b, NL) + 1)

\* What the router sends in answer to one command: a line, nothing, a part
\* of a line, a line whose newline is its 1024th byte, a line longer than
\* that, and more than 1024 bytes without a newline.
Replies ==
    {<<Run("b", 3), Run(NL, 1)>>, <<>>, <<Run("b", 3)>>,
     <<Run("b", PeekLen - 1), Run(NL, 1)>>, <<Run("b", PeekLen + 1), Run(NL, 1)>>,
     <<Run("b", PeekLen + 1)>>}

\* A reply that is one complete line.
Complete(reply) == reply # <<>> /\ RPosition(reply, NL) = RLen(reply) - 1

\* The router answers each command with a complete line, or closes the
\* connection: what it sends is complete lines, one for each read when it
\* keeps the connection open, and at most a last reply that is not a line
\* when it closes.
Answering(name, pending, open) ==
    /\ Len(pending) <= Reads(name)
    /\ \A i \in 1..(Len(pending) - 1) : Complete(pending[i])
    /\ open => Len(pending) = Reads(name) /\ Complete(pending[Len(pending)])

\* The connection has ended: read_exact fails, read_line and peek return 0.
Ended(w) == w.pending = <<>> /\ ~w.open

ReturnInit ==
    /\ debug_assertions \in BOOLEAN
    /\ info_enabled \in BOOLEAN
    /\ \E options \in FacadeOptions : controller = new(options)
    /\ child = NoController
    /\ last = NoCall
    /\ FacadeIdle
    /\ api = ApiUninitialized
    /\ detached = <<>>
    /\ listener = NoListener
    /\ subsessions = NoSubsessions
    /\ datagram = NoDatagram
    /\ \E name \in {"connect", "accept", "forward"},
          reader \in {"read_response", "read_response!"},
          pending \in BoundedSeq(Replies, 3),
          open \in BOOLEAN :
            /\ Answering(name, pending, open)
            /\ wire = Reading(name, reader, "read", 0, pending, <<>>, <<>>, open, None)

ReturnStep(w) ==
    /\ wire' = w
    /\ UNCHANGED <<controller, child, last, buildVars, facadeVars, api, detached, styleVars>>

\* The next reply of the router arrives.  The reply to the second command
\* is not sent before the first line was read and the command written.
ReturnDeliver ==
    /\ wire.pending # <<>>
    /\ wire.delivered = 1 => Len(wire.lines) >= 1
    /\ ReturnStep([wire EXCEPT !.socket = Norm(@ \o Head(wire.pending)),
                               !.pending = Tail(@),
                               !.delivered = @ + 1])

\* read_response(&mut stream) or read_response!(stream) of connect, accept
\* and forward, and what follows it up to the next await: handle_response
\* on the line with `?`, the next command, or the return of the operation.
\* The controller returns an error for an empty line and Ok or an error for
\* any other; the last read of accept in session/mod.rs is not handed to
\* the controller.
ReturnRead ==
    /\ wire.pc = "read"
    /\ RPosition(wire.socket, NL) # -1 \/ Ended(wire)
    /\ \E accepted \in IF wire.reader = "read_response" /\ Len(wire.lines) = 2
                       THEN {TRUE}
                       ELSE IF RThrough(wire.socket) = <<>> THEN {FALSE} ELSE BOOLEAN :
       \E rest \in {IF wire.reader = "read_response"
                    THEN RDrop(wire.socket, RLen(RThrough(wire.socket)))
                    ELSE <<>>} :
        ReturnStep([wire EXCEPT
            !.lines = Append(@, RThrough(wire.socket)),
            !.socket = rest,
            !.pc = IF ~accepted \/ Len(wire.lines) + 1 = Reads(wire.op)
                   THEN "returned"
                   ELSE IF wire.reader = "read_response!" /\ Len(wire.lines) = 1
                             /\ wire.op = "accept"
                        THEN "ready"
                        ELSE "read",
            !.ret = IF ~accepted THEN "Err"
                    ELSE IF Len(wire.lines) + 1 = Reads(wire.op) THEN "Ok" ELSE None])

\* Session::accept of session.rs: stream.ready(Interest::READABLE).await
\* completes when the socket holds bytes or the connection has ended.
ReturnReady ==
    /\ wire.pc = "ready"
    /\ wire.socket # <<>> \/ Ended(wire)
    /\ ReturnStep([wire EXCEPT !.pc = "peek"])

\* Session::accept of session.rs: stream.peek(&mut response) copies at most
\* PeekLen bytes and leaves them in the socket.  With a newline among them
\* the line is read and the operation returns; without one the loop starts
\* again.
ReturnPeek ==
    /\ wire.pc = "peek"
    /\ \E newline \in {RPosition(RTake(wire.socket, PeekLen), NL)} :
        IF newline # -1
        THEN ReturnStep([wire EXCEPT !.lines = Append(@, RTake(wire.socket, newline + 1)),
                                     !.socket = RDrop(@, newline + 1),
                                     !.pc = "returned",
                                     !.ret = "Ok"])
        ELSE ReturnStep([wire EXCEPT !.pc = "ready"])

ReturnNext ==
    \/ ReturnDeliver
    \/ ReturnRead
    \/ ReturnReady
    \/ ReturnPeek

ReturnSpec == ReturnInit /\ [][ReturnNext]_vars

\* The network delivers what the router has sent and the executor polls the
\* operation whenever it can make a step.
ReturnLive ==
    /\ ReturnSpec
    /\ WF_vars(ReturnDeliver)
    /\ WF_vars(ReturnRead)
    /\ WF_vars(ReturnReady)
    /\ WF_vars(ReturnPeek)

-----------------------------------------------------------------------------
(* RouterSpec: a caller of RouterApiController.                             *)

\* The record of a call on the RouterApiController.
ApiCall(name, remote, response, pre, ret) ==
    [op |-> name, style |-> None, ret |-> ret, response |-> response, remote |-> remote,
     pre |-> pre, after_error |-> FALSE, after_subsession |-> FALSE]

\* One call on the RouterApiController: `out` is the operation's outcome.
ApiMade(out) ==
    /\ api' = out.self
    /\ UNCHANGED <<controller, child, buildVars, facadeVars, detached, wire, styleVars>>

\* Values the router may bind to VALUE, PUB and PRIV.
RouterValues == {"D", "P"}

\* Lines the router may answer a RouterApiController with.
RouterLines ==
    {HelloOk, HelloError, NamingError, NamingUnknownResult, NamingNoValue, DestResult,
     StreamOk, NoLine}
        \cup { NamingValue(z) : z \in RouterValues }
        \cup { DestKeys(d, k) : d, k \in RouterValues }
        \cup { DestNoPriv(d) : d \in RouterValues }
        \cup { DestNoPub(k) : k \in RouterValues }

\* RouterApiController::new()
RouterNew ==
    \E out \in {ApiOutcome(ApiUninitialized, OkUnit)} :
        /\ ApiMade(out)
        /\ last' = ApiCall("new", None, NoLine, api, out.ret)

RouterHandshake ==
    \E out \in {handshake_router_api(api)} :
        /\ ApiMade(out)
        /\ last' = ApiCall("handshake_router_api", None, NoLine, api, out.ret)

RouterLookupName ==
    \E name \in {"host.i2p"} :
    \E out \in {lookup_name(api, name)} :
        /\ ApiMade(out)
        /\ last' = ApiCall("lookup_name", name, NoLine, api, out.ret)

RouterGenerateDestination ==
    \E out \in {generate_destination(api)} :
        /\ ApiMade(out)
        /\ last' = ApiCall("generate_destination", None, NoLine, api, out.ret)

RouterHandleResponse ==
    \E response \in RouterLines :
    \E out \in {router_handle_response(api, response)} :
        /\ ApiMade(out)
        /\ last' = ApiCall("handle_response", None, response, api, out.ret)

RouterDestination ==
    \E out \in {router_destination(api)} :
        /\ ApiMade(out)
        /\ last' = ApiCall("destination", None, NoLine, api, out.ret)

RouterGeneratedDestination ==
    \E out \in {generated_destination(api)} :
        /\ ApiMade(out)
        /\ last' = ApiCall("generated_destination", None, NoLine, api, out.ret)

RouterNext ==
    \/ RouterNew
    \/ RouterHandshake
    \/ RouterLookupName
    \/ RouterGenerateDestination
    \/ RouterHandleResponse
    \/ RouterDestination
    \/ RouterGeneratedDestination

RouterSpec == Init /\ [][RouterNext]_vars

-----------------------------------------------------------------------------
(* DatagramSpec: send_to and recv_from of session/style/datagram.rs.        *)

\* send_to writing the header and the payload as two packets.
send_to_in_two(self, buf, d, accepted) ==
    IF accepted
    THEN [self |-> [self EXCEPT !.sent =
                        <<Sent(self.options.samv3_udp_port,
                               Norm(Str("3.0") \o Str(SP) \o self.options.nickname
                                        \o Str(SP) \o d \o Str(NL))),
                          Sent(self.options.samv3_udp_port, Norm(buf))>>],
          ret |-> DatagramResult("Ok", 0, <<>>)]
    ELSE [self |-> [self EXCEPT !.sent = <<>>], ret |-> DatagramResult("IoError", 0, <<>>)]

\* Repliable::send_to and Anonymous::send_to: `accepted` says whether
\* UdpSocket::send_to returned Ok.
send_to(self, buf, d, accepted) ==
    IF accepted
    THEN [self |-> [self EXCEPT !.sent =
                        <<Sent(self.options.samv3_udp_port,
                               Norm(Str("3.0") \o Str(SP) \o self.options.nickname
                                        \o Str(SP) \o d \o Str(NL) \o buf))>>],
          ret |-> DatagramResult("Ok", 0, <<>>)]
    ELSE [self |-> [self EXCEPT !.sent = <<>>], ret |-> DatagramResult("IoError", 0, <<>>)]

\* Repliable::recv_from once UdpSocket::recv has returned Ok(nread): the
\* socket fills self.buffer with at most BufferLen bytes of `packet`; `buf`
\* is the caller's buffer.  The call aborts at an unwrap() of None and at a
\* slice longer than `buf`.
recv_from(packet, buf) ==
    LET read == RTake(packet, BufferLen)
        nread == RLen(read)
        destination_end == RPosition(read, SP)
        header_end == RPosition(read, NL)
        datagram_len == nread - header_end - 1
    IN  IF destination_end = -1
        THEN [ret |-> DatagramResult("Panic", 0, <<>>), buf |-> buf]
        ELSE IF ~Utf8(RTake(read, destination_end))
             THEN [ret |-> DatagramResult("Malformed", 0, <<>>), buf |-> buf]
             ELSE IF header_end = -1 \/ datagram_len > RLen(buf)
                  THEN [ret |-> DatagramResult("Panic", 0, <<>>), buf |-> buf]
                  ELSE [ret |-> DatagramResult("Ok", datagram_len,
                                               Norm(RTake(read, destination_end))),
                        buf |-> Norm(RDrop(read, header_end + 1) \o RDrop(buf, datagram_len))]

\* A packet of the router: source destination, space, header text, newline,
\* payload.
Packet(src, header, payload) == Norm(src \o Str(SP) \o header \o Str(NL) \o payload)

\* Source destinations, header texts and payloads of inbound packets, and
\* the payloads and destinations a caller sends.
Sources == {<<Run("S", 516)>>, <<Run("S", 3)>>, <<Run("S", 2), Run(Invalid, 1)>>,
            <<Run("S", 5000)>>}
Headers == {<<>>, <<Run("FROM_PORT=1", 1), Run(SP, 1), Run("TO_PORT=2", 1)>>}
Payloads == {<<>>, <<Run("a", 1)>>, <<Run("a", 2), Run(NL, 1), Run(SP, 1), Run("b", 3)>>,
             <<Run("a", 3000)>>, <<Run("a", 3000), Run("b", 2000)>>}

\* Packets that are not of that form.
OtherPackets == {<<>>, <<Run("S", 3)>>, <<Run("S", 3), Run(SP, 1), Run("a", 2)>>,
                 <<Run("S", 3), Run(NL, 1), Run("a", 2), Run(SP, 1)>>}

\* How much longer than the payload the caller's buffer is; -1: shorter.
Slack == {-1, 0, 5}

DatagramInit ==
    /\ debug_assertions \in BOOLEAN
    /\ info_enabled \in BOOLEAN
    /\ \E options \in FacadeOptions : controller = new(options)
    /\ child = NoController
    /\ last = NoCall
    /\ FacadeIdle
    /\ api = ApiUninitialized
    /\ detached = <<>>
    /\ wire = NoWire
    /\ listener = NoListener
    /\ subsessions = NoSubsessions
    /\ \E style \in {"Repliable", "Anonymous"}, nickname \in {Str("N"), Str("M")} :
        datagram = DatagramOf(None, style, DatagramOptions(nickname, 7655), <<>>, <<>>,
                              <<>>, <<>>, <<>>, DatagramResult(None, 0, <<>>), <<>>)

DatagramStep(d) ==
    /\ datagram' = d
    /\ UNCHANGED <<controller, child, last, buildVars, facadeVars, api, detached, wire,
                   listener, subsessions>>

\* Session::<Repliable>::send_to and Session::<Anonymous>::send_to
DatagramSendTo ==
    \E payload \in Payloads, d \in {Str("D"), Str("E")}, accepted \in BOOLEAN :
    \E out \in {send_to(datagram, payload, d, accepted)} :
        DatagramStep([out.self EXCEPT !.op = "send_to", !.peer = d, !.header = <<>>,
                                      !.payload = payload, !.packet = <<>>,
                                      !.buf = payload, !.ret = out.ret])

\* Session::<Repliable>::recv_from: UdpSocket::recv fails, or delivers a
\* packet of the form SRC SP header NL payload.
DatagramRecvFrom ==
    /\ datagram.style = "Repliable"
    /\ \E src \in Sources, header \in Headers, payload \in Payloads, slack \in Slack :
       \E packet \in {Packet(src, header, payload)},
          buf \in {Zeroes(IF RLen(payload) + slack < 0 THEN 0 ELSE RLen(payload) + slack)} :
        \/ DatagramStep([datagram EXCEPT !.op = "recv_from", !.peer = src,
                            !.header = header, !.payload = payload, !.packet = <<>>,
                            !.buf = buf, !.ret = DatagramResult("IoError", 0, <<>>),
                            !.sent = <<>>])
        \/ \E out \in {recv_from(packet, buf)} :
            DatagramStep([datagram EXCEPT !.op = "recv_from", !.peer = src,
                            !.header = header, !.payload = payload, !.packet = packet,
                            !.buf = out.buf, !.ret = out.ret, !.sent = <<>>])

\* Session::<Repliable>::recv_from: UdpSocket::recv delivers a packet of
\* another form.
DatagramRecvOther ==
    /\ datagram.style = "Repliable"
    /\ \E packet \in OtherPackets, buf \in {Zeroes(5)} :
       \E out \in {recv_from(packet, buf)} :
            DatagramStep([datagram EXCEPT !.op = "recv_other", !.peer = <<>>,
                            !.header = <<>>, !.payload = <<>>, !.packet = packet,
                            !.buf = out.buf, !.ret = out.ret, !.sent = <<>>])

DatagramNext ==
    \/ DatagramSendTo
    \/ DatagramRecvFrom
    \/ DatagramRecvOther

DatagramSpec == DatagramInit /\ [][DatagramNext]_vars

-----------------------------------------------------------------------------
(* ListenerSpec: Listener of asynchronous/listener.rs.  Listener::new runs  *)
(* from await to await, then every action is one poll_next that lets the    *)
(* accept future advance to its next await or to its output.                *)

\* Listener::accept_future(controller, options): nothing of it has run.
accept_future(self) == AcceptFuture("connect", self, None)

\* poll_next issuing the next accept from the controller of the accept that
\* has completed.
poll_next_resuming(self, f) ==
    IF f.pc # "done"
    THEN [self EXCEPT !.future = f]
    ELSE IF f.result = "Ok"
         THEN [self EXCEPT !.future = accept_future(f.controller),
                           !.yielded = @ + 1, !.issued = @ + 1]
         ELSE [self EXCEPT !.future = f, !.ended = TRUE]

\* poll_next, with f the future after its poll: Pending while f has no
\* output; Ok(stream) replaces the future by a new accept and yields the
\* stream; Err yields None.
poll_next(self, f) ==
    IF f.pc # "done"
    THEN [self EXCEPT !.future = f]
    ELSE IF f.result = "Ok"
         THEN [self EXCEPT !.future = accept_future(self.controller),
                           !.yielded = @ + 1, !.issued = @ + 1]
         ELSE [self EXCEPT !.future = f, !.ended = TRUE]

\* The accept future returns `tag`.
Output(f, state, tag) == AcceptFuture("done", state, tag)

\* The accept future goes on to the await `at`.
Await(f, state, at) == AcceptFuture(at, state, None)

ListenerInit ==
    /\ debug_assertions \in BOOLEAN
    /\ info_enabled \in BOOLEAN
    /\ \E options \in FacadeOptions : controller = new(options)
    /\ child = NoController
    /\ last = NoCall
    /\ FacadeIdle
    /\ api = ApiUninitialized
    /\ detached = <<>>
    /\ wire = NoWire
    /\ listener = ListenerOf("new_connect", Uninitialized, NoFuture, 0, 0, FALSE, FALSE)
    /\ subsessions = NoSubsessions
    /\ datagram = NoDatagram

ListenerStep(l) ==
    /\ listener' = l
    /\ UNCHANGED <<controller, child, last, buildVars, facadeVars, api, detached, wire,
                   datagram, subsessions>>

\* What a read of one line may deliver to the listener.
ListenerReadLines ==
    {HelloOk, SessionOk("I2P_DESTINATION"), StreamOk, StreamError("CANT_REACH_PEER"), NoLine}

\* Listener::new: TcpStream::connect, ListenerController::new,
\* handshake_session()? and the start of write_all.
ListenerNewConnect ==
    /\ listener.pc = "new_connect"
    /\ \/ ListenerStep([listener EXCEPT !.pc = "failed"])
       \/ \E out \in {listener_handshake_session(listener.controller)} :
            ListenerStep([listener EXCEPT
                            !.controller = out.self,
                            !.pc = IF out.ret.tag = "Ok" THEN "new_write_hello"
                                                         ELSE "failed"])

\* Listener::new: a write_all completes, or fails.
ListenerNewWriteDone ==
    /\ listener.pc \in {"new_write_hello", "new_write_create"}
    /\ \/ ListenerStep([listener EXCEPT !.pc = "failed"])
       \/ ListenerStep([listener EXCEPT
                            !.pc = IF @ = "new_write_hello" THEN "new_read_hello"
                                                             ELSE "new_read_status"])

\* Listener::new: read_response! after HELLO VERSION, handle_response(..)?,
\* create_transient_session()? and the start of write_all.
ListenerNewReadHello ==
    /\ listener.pc = "new_read_hello"
    /\ \/ ListenerStep([listener EXCEPT !.pc = "failed"])
       \/ \E line \in ListenerReadLines :
          \E handled \in {listener_handle_response(listener.controller, line)} :
          \E issued \in {create_transient_session(handled.self, "N")} :
            IF handled.ret.tag # "Ok"
            THEN ListenerStep([listener EXCEPT !.controller = handled.self,
                                               !.pc = "failed"])
            ELSE ListenerStep([listener EXCEPT
                                !.controller = issued.self,
                                !.pc = IF issued.ret.tag = "Ok" THEN "new_write_create"
                                                                ELSE "failed"])

\* Listener::new: read_response! after SESSION CREATE, handle_response(..)?
\* and Ok(Self { future: Self::accept_future(controller.clone(), ..), .. }).
ListenerNewReadStatus ==
    /\ listener.pc = "new_read_status"
    /\ \/ ListenerStep([listener EXCEPT !.pc = "failed"])
       \/ \E line \in ListenerReadLines :
          \E handled \in {listener_handle_response(listener.controller, line)} :
            IF handled.ret.tag # "Ok"
            THEN ListenerStep([listener EXCEPT !.controller = handled.self,
                                               !.pc = "failed"])
            ELSE ListenerStep([listener EXCEPT !.controller = handled.self,
                                               !.pc = "ready",
                                               !.future = accept_future(handled.self),
                                               !.issued = 1])

\* poll_next is called while the Listener has not ended.
Pollable(at) ==
    /\ listener.pc = "ready"
    /\ ~listener.ended
    /\ listener.future.pc \in at

\* accept_future: TcpStream::connect completes, handshake_listener()? and
\* the start of write_all.
AcceptConnect ==
    /\ Pollable({"connect"})
    /\ \E f \in {listener.future} :
        \/ ListenerStep(poll_next(listener, Output(f, f.controller, "IoError")))
        \/ \E out \in {handshake_listener(f.controller)} :
            ListenerStep(poll_next(listener,
                IF out.ret.tag = "Ok"
                THEN Await(f, out.self, "write_hello")
                ELSE Output(f, out.self, out.ret.tag)))

\* accept_future: a write_all completes, or fails.
AcceptWriteDone ==
    /\ Pollable({"write_hello", "write_accept"})
    /\ \E f \in {listener.future} :
        \/ ListenerStep(poll_next(listener, Output(f, f.controller, "IoError")))
        \/ ListenerStep(poll_next(listener,
                Await(f, f.controller,
                      IF f.pc = "write_hello" THEN "read_hello" ELSE "read_status")))

\* accept_future: read_response! after HELLO VERSION, handle_response(..)?,
\* accept_stream()? and the start of write_all.
AcceptReadHello ==
    /\ Pollable({"read_hello"})
    /\ \E f \in {listener.future} :
        \/ ListenerStep(poll_next(listener, Output(f, f.controller, "IoError")))
        \/ \E line \in ListenerReadLines :
           \E handled \in {listener_handle_response(f.controller, line)} :
           \E issued \in {listener_accept_stream(handled.self, "N")} :
            ListenerStep(poll_next(listener,
                IF handled.ret.tag # "Ok"
                THEN Output(f, handled.self, handled.ret.tag)
                ELSE IF issued.ret.tag = "Ok"
                     THEN Await(f, issued.self, "write_accept")
                     ELSE Output(f, issued.self, issued.ret.tag)))

\* accept_future: read_response! after STREAM ACCEPT and handle_response(..)?.
AcceptReadStatus ==
    /\ Pollable({"read_status"})
    /\ \E f \in {listener.future} :
        \/ ListenerStep(poll_next(listener, Output(f, f.controller, "IoError")))
        \/ \E line \in ListenerReadLines :
           \E handled \in {listener_handle_response(f.controller, line)} :
            ListenerStep(poll_next(listener,
                IF handled.ret.tag # "Ok"
                THEN Output(f, handled.self, handled.ret.tag)
                ELSE Await(f, handled.self, "read_destination")))

\* accept_future: read_response! of the remote's destination, whatever the
\* line, and Ok(Stream::from_stream(..)).
AcceptReadDestination ==
    /\ Pollable({"read_destination"})
    /\ \E f \in {listener.future} :
        \/ ListenerStep(poll_next(listener, Output(f, f.controller, "IoError")))
        \/ /\ listener.issued < MaxAccepts
           /\ ListenerStep(poll_next(listener, Output(f, f.controller, "Ok")))

\* poll_next is called after it returned None: the future that has
\* completed is polled again, which aborts.
PollAfterEnd ==
    /\ listener.pc = "ready"
    /\ listener.ended
    /\ ~listener.aborted
    /\ ListenerStep([listener EXCEPT !.aborted = TRUE])

ListenerNext ==
    \/ ListenerNewConnect
    \/ ListenerNewWriteDone
    \/ ListenerNewReadHello
    \/ ListenerNewReadStatus
    \/ AcceptConnect
    \/ AcceptWriteDone
    \/ AcceptReadHello
    \/ AcceptReadStatus
    \/ AcceptReadDestination
    \/ PollAfterEnd

ListenerSpec == ListenerInit /\ [][ListenerNext]_vars

-----------------------------------------------------------------------------
(* Properties of SessionController, stated over the last call: the state it *)
(* was made in (last.pre), what it returned (last.ret) and the state it     *)
(* left (controller.state).                                                 *)

StreamOps == {"create_stream", "accept_stream", "forward_stream"}

\* The pending kind each stream operation leaves.
KindOf(name) ==
    CASE name = "create_stream" -> "Connect"
      [] name = "accept_stream" -> "Accept"
      [] name = "forward_stream" -> "Forward"

\* C1: session creation is strictly sequential: handshake_session from
\* Uninitialized, HELLO REPLY RESULT=OK, create_session(P) for every session
\* style P, and SESSION STATUS RESULT=OK DESTINATION=d each return Ok and
\* lead through Handshaking, Handshaked and SessionCreatePending to
\* Active{d, Uninitialized}, where destination() returns d.
C1_SessionCreationSequence ==
    /\ (last.op = "handshake_session" /\ last.pre = Uninitialized)
        => (last.ret = Ok(HelloVersion) /\ controller.state = Handshaking)
    /\ (last.op = "handle_response" /\ last.pre = Handshaking /\ last.response = HelloOk)
        => (last.ret = OkUnit /\ controller.state = Handshaked)
    /\ (last.op = "create_session" /\ last.pre = Handshaked)
        => (last.ret.tag = "Ok" /\ controller.state = SessionCreatePending)
    /\ \A d \in Destinations :
        (/\ last.op = "handle_response"
         /\ last.pre = SessionCreatePending
         /\ last.response = SessionOk(d))
        => /\ last.ret = OkUnit
           /\ controller.state = Active(d, StreamUninitialized)
           /\ destination(controller).ret = OkValue(d)

\* C2: a router error on STREAM STATUS returns Router(error) and resets the
\* sub-state to Uninitialized with the destination kept, and the attempt
\* that follows (handshake_stream, HELLO REPLY RESULT=OK, a stream
\* operation, STREAM STATUS RESULT=OK) succeeds step by step on the same
\* session.
C2_StreamErrorThenRetry ==
    \A d \in Destinations :
        /\ (/\ last.op = "handle_response"
            /\ last.pre.tag = "Active"
            /\ last.pre.destination = d
            /\ last.pre.stream_state.tag = "Pending"
            /\ Parse(last.response).variant = "Stream"
            /\ ~Parse(last.response).ok)
            => /\ last.ret = Router(Parse(last.response).error)
               /\ controller.state = Active(d, StreamUninitialized)
        /\ (/\ last.after_error
            /\ last.op = "handshake_stream"
            /\ last.pre = Active(d, StreamUninitialized))
            => /\ last.ret = Ok(HelloVersion)
               /\ controller.state = Active(d, StreamHandshaking)
        /\ (/\ last.after_error
            /\ last.op = "handle_response"
            /\ last.pre = Active(d, StreamHandshaking)
            /\ last.response = HelloOk)
            => /\ last.ret = OkUnit
               /\ controller.state = Active(d, StreamHandshaked)
        /\ (/\ last.after_error
            /\ last.op \in StreamOps
            /\ last.pre = Active(d, StreamHandshaked))
            => /\ last.ret.tag = "Ok"
               /\ controller.state = Active(d, Pending(KindOf(last.op)))
        /\ (/\ last.after_error
            /\ last.op = "handle_response"
            /\ last.pre.tag = "Active"
            /\ last.pre.destination = d
            /\ last.pre.stream_state.tag = "Pending"
            /\ last.response = StreamOk)
            => /\ last.ret = OkUnit
               /\ controller.state = Active(d, StreamUninitialized)

\* C3: every stream operation called in Active{d, Handshaked} returns its
\* command and awaits STREAM STATUS; RESULT=OK then returns Ok and leaves
\* Active{d, Uninitialized}, from where handshake_stream is accepted again,
\* however many stream operations came before.
C3_StreamSuccessResets ==
    \A d \in Destinations :
        /\ (last.op \in StreamOps /\ last.pre = Active(d, StreamHandshaked))
            => /\ last.ret.tag = "Ok"
               /\ controller.state = Active(d, Pending(KindOf(last.op)))
        /\ (/\ last.op = "handle_response"
            /\ last.pre.tag = "Active"
            /\ last.pre.destination = d
            /\ last.pre.stream_state.tag = "Pending"
            /\ last.response = StreamOk)
            => /\ last.ret = OkUnit
               /\ controller.state = Active(d, StreamUninitialized)
               /\ handshake_stream(controller).ret = Ok(HelloVersion)

\* C10: create_session called in Handshaked with style PRIMARY returns the
\* SESSION CREATE command with STYLE=PRIMARY and leaves SessionCreatePending,
\* and SESSION STATUS RESULT=OK DESTINATION=d then leads to
\* Active{d, Uninitialized}.
C10_PrimarySessionCreated ==
    /\ (last.op = "create_session" /\ last.pre = Handshaked /\ last.style = "PRIMARY")
        => /\ last.ret.tag = "Ok"
           /\ SubSeq(last.ret.command, 1, 6)
                = <<"SESSION", SP, "CREATE", SP, "STYLE=", "PRIMARY">>
           /\ controller.state = SessionCreatePending
    /\ \A d \in Destinations :
        (/\ last.op = "handle_response"
         /\ last.pre = SessionCreatePending
         /\ last.response = SessionOk(d))
        => controller.state = Active(d, StreamUninitialized)

\* The states in which the controller awaits a reply, and the response
\* variant each of them accepts.
Awaiting(st) ==
    \/ st \in {Handshaking, SessionCreatePending}
    \/ st.tag = "SubsessionCreatePending"
    \/ st.tag = "Active" /\ st.stream_state.tag \in {"Handshaking", "Pending"}

Expected(st) ==
    CASE st = Handshaking -> "Hello"
      [] st = SessionCreatePending -> "Session"
      [] st.tag = "SubsessionCreatePending" -> "Subsession"
      [] st.tag = "Active" /\ st.stream_state.tag = "Handshaking" -> "Hello"
      [] st.tag = "Active" /\ st.stream_state.tag = "Pending" -> "Stream"
      [] OTHER -> None

\* C4: in a state that awaits a reply, a reply that is unparsable or of
\* another variant than the expected one makes handle_response return
\* InvalidMessage or InvalidState, and a controller that was Active with
\* destination d still answers destination() with d.
C4_UnexpectedReplyKeepsDestination ==
    (/\ last.op = "handle_response"
     /\ Awaiting(last.pre)
     /\ Parse(last.response).variant # Expected(last.pre))
    => /\ last.ret \in {InvalidMessage, InvalidState}
       /\ last.pre.tag = "Active"
            => destination(controller).ret = OkValue(last.pre.destination)

ControllerOps ==
    {"handshake_session", "create_session", "create_subsession", "handshake_stream",
     "handle_response"} \cup StreamOps

\* The state each operation is specified for.
ValidPrecondition(name, st) ==
    CASE name = "handshake_session" -> st = Uninitialized
      [] name = "create_session" -> st = Handshaked
      [] name \in {"create_subsession", "handshake_stream"} ->
            st.tag = "Active" /\ st.stream_state = StreamUninitialized
      [] name \in StreamOps -> st.tag = "Active" /\ st.stream_state = StreamHandshaked
      [] name = "handle_response" -> Awaiting(st)
      [] OTHER -> TRUE

\* C5: in a build without debug assertions, every operation called in a
\* state that is not its precondition returns InvalidState without a command
\* and leaves the controller Poisoned.
C5_IllegalCallPoisons ==
    (/\ ~debug_assertions
     /\ last.op \in ControllerOps
     /\ ~ValidPrecondition(last.op, last.pre))
    => (last.ret = InvalidState /\ controller.state = Poisoned)

\* C6: once the controller holds a destination, every state it moves to
\* holds the same destination or is Poisoned, and Poisoned is never left.
C6_DestinationStable ==
    [][/\ controller.state.tag \in {"Active", "SubsessionCreatePending"}
          => \/ controller'.state = Poisoned
             \/ /\ controller'.state.tag \in {"Active", "SubsessionCreatePending"}
                /\ controller'.state.destination = controller.state.destination
       /\ controller.state = Poisoned => controller'.state = Poisoned]_vars

\* A subsession is requested from an Active session: the pending state
\* carries the session's destination.
C6_Witness ==
    /\ last.op = "create_subsession"
    /\ last.pre.tag = "Active"
    /\ controller.state = SubsessionCreatePending(last.pre.destination)

\* C8: no operation returns a command while the controller awaits the reply
\* to the previous one.
C8_CommandsSerialised ==
    (last.op \in ControllerOps \ {"handle_response"} /\ Awaiting(last.pre))
    => last.ret.tag # "Ok"

\* C9: create_subsession from Active{d, Uninitialized} awaits the reply with
\* d kept; SESSION STATUS RESULT=OK ID=.. returns the parent to
\* Active{d, Uninitialized}; the child built by new_for_subsession starts in
\* Active{d, Uninitialized}, and destination() of child and parent both
\* return d.
C9_SubsessionSharesDestination ==
    \A d \in Destinations :
        /\ (last.op = "create_subsession" /\ last.pre = Active(d, StreamUninitialized))
            => (last.ret.tag = "Ok" /\ controller.state = SubsessionCreatePending(d))
        /\ (/\ last.op = "handle_response"
            /\ last.pre = SubsessionCreatePending(d)
            /\ last.response = SubsessionOk)
            => (last.ret = OkUnit /\ controller.state = Active(d, StreamUninitialized))
        /\ (/\ last.op = "new_for_subsession"
            /\ last.pre = Active(d, StreamUninitialized))
            => /\ last.ret = OkUnit
               /\ child.state = Active(d, StreamUninitialized)
               /\ destination(child).ret = OkValue(d)
               /\ destination(controller).ret = OkValue(d)

\* The router has confirmed a subsession and the child was built from the
\* parent.
C9_Witness ==
    /\ last.op = "new_for_subsession"
    /\ last.after_subsession
    /\ last.ret = OkUnit
    /\ child.state = controller.state
    /\ controller.state.tag = "Active"

\* C18 as stated: a reply that parses to a response of another variant than
\* the awaited one makes handle_response return InvalidMessage.
C18_WrongShapeIsInvalidMessage ==
    (/\ last.op = "handle_response"
     /\ Awaiting(last.pre)
     /\ Parse(last.response).variant \notin {None, "Panic", Expected(last.pre)})
    => last.ret = InvalidMessage

\* C18, amended: a reply that parses to a response of another variant than
\* the awaited one makes handle_response return InvalidState; InvalidMessage
\* is what a line that does not parse returns.
C18_WrongShapeIsInvalidState ==
    (last.op = "handle_response" /\ Awaiting(last.pre))
    => /\ Parse(last.response).variant \notin {None, "Panic", Expected(last.pre)}
            => last.ret = InvalidState
       /\ Parse(last.response) = NoParse => last.ret = InvalidMessage

\* STREAM STATUS was fed where HELLO REPLY was awaited, in Handshaking or in
\* Active{Handshaking}.
C18_Witness ==
    /\ last.op = "handle_response"
    /\ last.response = StreamOk
    /\ Expected(last.pre) = "Hello"
    /\ last.pre.tag = "Active"
    /\ last.ret = InvalidState

\* C19: Response::parse never aborts; a line with an unrecognised verb, with
\* a recognised verb and a missing or non-matching subverb, or without a
\* required key is no parse, which an awaiting handle_response reports as
\* InvalidMessage.
C19_ParseTotal ==
    LET line == last.response
        verbs == {<<"HELLO", "REPLY">>, <<"SESSION", "STATUS">>, <<"STREAM", "STATUS">>,
                  <<"NAMING", "REPLY">>, <<"DEST", "REPLY">>}
        keyless ==
            CASE line.command = "HELLO" ->
                    ~HasKey(line.pairs, "VERSION") /\ ~HasKey(line.pairs, "RESULT")
              [] line.command = "SESSION" ->
                    ~HasKey(line.pairs, "DESTINATION") /\ ~HasKey(line.pairs, "RESULT")
              [] line.command \in {"STREAM", "NAMING"} -> ~HasKey(line.pairs, "RESULT")
              [] line.command = "DEST" ->
                    ~HasKey(line.pairs, "PUB") \/ ~HasKey(line.pairs, "PRIV")
              [] OTHER -> FALSE
    IN  (last.op = "handle_response" /\ Awaiting(last.pre))
        => /\ Parse(line) # ParsePanic
           /\ last.ret # Panic
           /\ (<<line.command, line.subcommand>> \notin verbs \/ keyless)
                => (Parse(line) = NoParse /\ last.ret = InvalidMessage)

\* C20: on a HELLO REPLY, SESSION STATUS, STREAM STATUS or NAMING REPLY line
\* a RESULT token that is neither OK nor a router error token is no parse
\* and InvalidMessage from an awaiting handle_response, and so is HELLO
\* REPLY RESULT=OK without VERSION.
C20_UnknownResultIsInvalidMessage ==
    LET line == last.response
        token == Get(line.pairs, "RESULT")
    IN  (/\ last.op = "handle_response"
         /\ Awaiting(last.pre)
         /\ <<line.command, line.subcommand>> \in
                {<<"HELLO", "REPLY">>, <<"SESSION", "STATUS">>, <<"STREAM", "STATUS">>,
                 <<"NAMING", "REPLY">>}
         /\ HasKey(line.pairs, "RESULT")
         /\ \/ token # "OK" /\ ~I2pErrorTryFrom(token, None).ok
            \/ line.command = "HELLO" /\ token = "OK" /\ ~HasKey(line.pairs, "VERSION"))
        => (Parse(line) = NoParse /\ last.ret = InvalidMessage)

-----------------------------------------------------------------------------
(* Properties of the facade, stated over the traffic of its connections.    *)

FacadeStreamOps == {"connect", "connect_with_options", "accept", "forward"}

\* The STREAM verb each facade operation sends.
VerbOf(name) ==
    CASE name \in {"connect", "connect_with_options"} -> "CONNECT"
      [] name = "accept" -> "ACCEPT"
      [] name = "forward" -> "FORWARD"
      [] OTHER -> None

\* C7: a connection opened by a stream operation carries, in this order and
\* nothing else, HELLO VERSION, the read of its reply, the operation's own
\* STREAM command (written only after a successful HELLO REPLY was read on
\* that connection), the read of STREAM STATUS and, for accept, the read of
\* the peer's destination; no other connection carries a STREAM command.
C7_StreamCommandAfterHandshake ==
    \A i \in DOMAIN conns :
        LET c == conns[i]
            t == c.traffic
        IN  IF c.opened_by \in FacadeStreamOps
            THEN /\ Len(t) <= IF c.opened_by = "accept" THEN 5 ELSE 4
                 /\ Len(t) >= 1 => t[1] = Written(HelloVersion)
                 /\ Len(t) >= 2 => t[2].dir = "read"
                 /\ Len(t) >= 3 =>
                        /\ t[3].dir = "write"
                        /\ SubSeq(t[3].command, 1, 3) = <<"STREAM", SP, VerbOf(c.opened_by)>>
                        /\ Parse(t[2].line).variant = "Hello"
                        /\ Parse(t[2].line).ok
                 /\ \A k \in 4..Len(t) : t[k].dir = "read"
            ELSE \A k \in DOMAIN t : t[k].dir = "write" => t[k].command[1] # "STREAM"

\* An accept has run to its end on a connection of its own.
C7_Witness ==
    \E i \in DOMAIN conns :
        /\ conns[i].opened_by = "accept"
        /\ conns[i].holder = "caller"
        /\ Len(conns[i].traffic) = 5
        /\ i # context.stream

\* C11 as stated: the TCP connection of a successful connect or accept is
\* the caller's and in no field of the session; the one of a successful
\* forward is the session's and open until the session is dropped; the one
\* of a RouterApi call that has returned is closed.
C11_CommandTcpOwnership ==
    \A i \in DOMAIN conns :
        LET c == conns[i]
        IN  /\ (c.opened_by \in {"connect", "connect_with_options", "accept"}
                    /\ c.result = "Ok")
                => /\ c.holder = "caller"
                   /\ i \notin {context.stream, context.forwarding_stream}
            /\ (c.opened_by = "forward" /\ c.result = "Ok")
                => IF pc = "dropped"
                   THEN c.holder = "closed"
                   ELSE c.holder = "session" /\ context.forwarding_stream = i
            /\ (c.opened_by \in {"lookup_name", "generate_destination"}
                    /\ c.result # None)
                => c.holder = "closed"

\* C11, amended: as C11, but the connection of a successful forward is the
\* session's and open until the session is dropped or a later forward
\* succeeds, which takes its place in the session and closes it.
C11_CommandTcpOwnershipUntilReplaced ==
    \A i \in DOMAIN conns :
        LET c == conns[i]
            replaced == \E j \in DOMAIN conns :
                            /\ j > i
                            /\ conns[j].opened_by = "forward"
                            /\ conns[j].result = "Ok"
        IN  /\ (c.opened_by \in {"connect", "connect_with_options", "accept"}
                    /\ c.result = "Ok")
                => /\ c.holder = "caller"
                   /\ i \notin {context.stream, context.forwarding_stream}
            /\ (c.opened_by = "forward" /\ c.result = "Ok")
                => IF pc = "dropped" \/ replaced
                   THEN c.holder = "closed" /\ context.forwarding_stream # i
                   ELSE c.holder = "session" /\ context.forwarding_stream = i
            /\ (c.opened_by \in {"lookup_name", "generate_destination"}
                    /\ c.result # None)
                => c.holder = "closed"

\* Two forwards have succeeded on a session that is still there.
C11_Witness ==
    /\ pc = "idle"
    /\ \E i, j \in DOMAIN conns :
        /\ i < j
        /\ conns[i].opened_by = "forward" /\ conns[i].result = "Ok"
        /\ conns[j].opened_by = "forward" /\ conns[j].result = "Ok"
        /\ conns[j].holder = "session"

C13_DroppedOperationPoisons ==
    (/\ pc = "idle"
     /\ returned = "Dropped"
     /\ stream # 0
     /\ Len(conns[stream].traffic) <= 3)
    => controller.state = Poisoned

\* C13, amended: such a drop leaves the controller in the awaiting
\* sub-state the operation had reached, Active{d, Handshaking} or
\* Active{d, Pending}, and the handshake_stream of the next stream operation
\* is refused (InvalidState, or the abort of a build with debug assertions)
\* and leaves Poisoned.
C13_DroppedOperationLeavesAwaiting ==
    (/\ pc = "idle"
     /\ returned = "Dropped"
     /\ stream # 0
     /\ Len(conns[stream].traffic) <= 3)
    => /\ controller.state.tag = "Active"
       /\ controller.state.stream_state =
            IF Len(conns[stream].traffic) <= 1
            THEN StreamHandshaking
            ELSE Pending(CASE conns[stream].opened_by = "accept" -> "Accept"
                           [] conns[stream].opened_by = "forward" -> "Forward"
                           [] OTHER -> "Connect")
       /\ handshake_stream(controller).self.state = Poisoned
       /\ handshake_stream(controller).ret
            = IF debug_assertions THEN Panic ELSE InvalidState

\* An accept was dropped while it waited for STREAM STATUS.
C13_Witness ==
    /\ pc = "idle"
    /\ returned = "Dropped"
    /\ stream # 0
    /\ Len(conns[stream].traffic) = 3
    /\ controller.state.tag = "Active"
    /\ controller.state.stream_state = Pending("Accept")

\* C15: on a session Session::new has returned, destination() returns the
\* destination of the SESSION STATUS reply read at creation, whatever
\* operations were called since and whatever they returned.
C15_DestinationAfterNew ==
    (pc = "idle" /\ conns[1].opened_by = "new" /\ conns[1].result = "Ok")
    => destination(controller).ret = OkValue(Parse(conns[1].traffic[4].line).value)

\* C17: a stream operation that has returned after a read that met the end
\* of the connection before a newline has returned Malformed.
C17_EofIsMalformed ==
    \A i \in DOMAIN conns :
        LET c == conns[i]
            t == c.traffic
        IN  (/\ c.opened_by \in FacadeStreamOps
             /\ c.result \notin {None, "Dropped"}
             /\ t # <<>>
             /\ t[Len(t)] = Read(NoLine))
            => c.result = "Malformed"

\* C14: no step of a connect_detached or connect_detached_with_options
\* future, from its creation to its completion or cancellation, changes the
\* session's own controller, however the futures interleave with each other
\* and with the operations of the session; the controller a future is
\* created with is a copy of the session's.
C14_DetachedLeavesSessionController ==
    [][/\ detached' # detached => controller' = controller
       /\ Len(detached') > Len(detached)
            => detached'[Len(detached')].controller = controller]_vars

\* One future ended on an invalid reply with its copy Poisoned, another was
\* cancelled after its HELLO VERSION, and the session has since connected
\* with its own controller.
C14_Witness ==
    /\ Len(detached) = 2
    /\ \E i, j \in DOMAIN detached :
        /\ detached[i].result \in {"InvalidMessage", "InvalidState"}
        /\ detached[i].controller.state = Poisoned
        /\ detached[j].result = "Dropped"
        /\ detached[j].controller.state.tag = "Active"
        /\ detached[j].controller.state.stream_state # StreamUninitialized
    /\ controller.state.tag = "Active"
    /\ pc = "idle"
    /\ returned = "Ok"
    /\ Len(conns) >= 2

\* The bytes of the lines ls, in order.
RECURSIVE Flatten(_)
Flatten(ls) == IF ls = <<>> THEN <<>> ELSE Head(ls) \o Flatten(Tail(ls))

\* C16: when accept has read its three lines, each ended by its newline,
\* it has taken from the connection those three lines and no byte more:
\* the lines, the bytes left in the socket and the bytes still to arrive
\* are, in this order, what the router sent.
C16_AcceptReadsThreeLines ==
    (/\ Len(wire.lines) = 3
     /\ \A k \in 1..3 : /\ wire.lines[k] # <<>>
                         /\ FirstNewline(wire.lines[k]) = Len(wire.lines[k]))
    => Flatten(wire.lines) \o wire.socket \o wire.pending = wire.sent


\* The words of a command: the atoms between two separators (space, newline),
\* each word a sequence of atoms; `word` is the word being collected.
RECURSIVE WordsFrom(_, _)
WordsFrom(text, word) ==
    IF text = <<>>
    THEN IF word = <<>> THEN {} ELSE {word}
    ELSE IF Head(text) \in {SP, NL}
         THEN (IF word = <<>> THEN {} ELSE {word}) \cup WordsFrom(Tail(text), <<>>)
         ELSE WordsFrom(Tail(text), Append(word, Head(text)))

Words(text) == WordsFrom(text, <<>>)

\* C21: a SESSION CREATE command create_session returns has the word
\* i2cp.dontPublishLeaseSet=true exactly when publish_lease_set is false.
C21_DontPublishLeaseSetToken ==
    (last.op = "create_session" /\ last.ret.tag = "Ok")
    => (<<"i2cp.dontPublishLeaseSet=", "true">> \in Words(last.ret.command)
            <=> ~controller.options.publish_lease_set)


\* C22: while the Listener has not ended there is one accept in progress and
\* one more accept has been issued than streams were yielded; an accept
\* that has not started holds the Listener's controller, which is
\* Active{d, Uninitialized}, so that the accept issued at once after a
\* yielded stream starts from that state; poll_next returns None at the first
\* accept that fails, and from then on no accept is issued.
C22_ListenerYieldsUntilFirstFailure ==
    /\ [](listener.pc = "ready"
            => /\ listener.issued = listener.yielded + 1
               /\ listener.controller.tag = "Active"
               /\ listener.controller.stream_state = StreamUninitialized
               /\ listener.future.pc = "connect"
                    => listener.future.controller = listener.controller
               /\ listener.ended <=> (/\ listener.future.pc = "done"
                                      /\ listener.future.result # "Ok")
               /\ listener.future.pc = "done" => listener.future.result # "Ok")
    /\ [][/\ listener.ended => (listener'.ended /\ listener'.issued = listener.issued)
          /\ listener'.yielded > listener.yielded
                => /\ listener'.issued = listener.issued + 1
                   /\ listener'.future = accept_future(listener.controller)
          /\ listener'.issued > listener.issued /\ listener.pc = "ready"
                => listener'.yielded = listener.yielded + 1]_vars

\* Two streams were yielded, the third accept failed and poll_next
\* returned None.
C22_Witness ==
    /\ listener.pc = "ready"
    /\ listener.yielded = 2
    /\ listener.issued = 3
    /\ listener.ended
    /\ listener.future.result = "Router"


\* C23: handshake_router_api takes Uninitialized to Handshaking, HELLO REPLY
\* RESULT=OK takes it to Handshaked, lookup_name(name) emits NAMING LOOKUP
\* NAME=name, NAMING REPLY RESULT=OK VALUE=z is accepted and destination()
\* then returns z; a NAMING REPLY with RESULT=KEY_NOT_FOUND makes
\* handle_response return Router(KeyNotFound) and leaves no destination.
C23_LookupNameYieldsValue ==
    /\ (last.op = "handshake_router_api" /\ last.pre = ApiUninitialized)
            => (last.ret = Ok(HelloVersion) /\ api = ApiHandshaking)
    /\ (last.op = "handle_response" /\ last.pre = ApiHandshaking
            /\ last.response = HelloOk)
            => (last.ret = OkUnit /\ api = ApiHandshaked)
    /\ (last.op = "lookup_name" /\ last.pre = ApiHandshaked)
            => /\ last.ret = Ok(<<"NAMING", SP, "LOOKUP", SP, "NAME=", last.remote, NL>>)
               /\ api = AwaitingLookupResponse
    /\ \A z \in RouterValues :
        /\ (last.op = "handle_response" /\ last.pre = AwaitingLookupResponse
                /\ last.response = NamingValue(z))
                => (last.ret = OkUnit /\ api = LookupSucceeded(z))
        /\ (last.op = "destination" /\ last.pre = LookupSucceeded(z))
                => last.ret = OkValue(z)
    /\ (last.op = "handle_response" /\ last.pre = AwaitingLookupResponse
            /\ last.response = NamingError)
            => /\ last.ret = Router(I2pError("KeyNotFound", None))
               /\ api.tag # "LookupSucceeded"
               /\ api.destination = None

\* destination() has returned the value of a NAMING REPLY.
C23_Witness ==
    /\ last.op = "destination"
    /\ last.pre = LookupSucceeded("D")
    /\ last.ret = OkValue("D")

\* C24: from Handshaked generate_destination emits DEST GENERATE
\* SIGNATURE_TYPE=7; DEST REPLY PUB=D PRIV=P, which has no RESULT, is
\* accepted and generated_destination() then returns (D, P); a DEST REPLY
\* without PUB or without PRIV is answered with InvalidMessage.
C24_GenerateDestinationYieldsKeys ==
    /\ (last.op = "generate_destination" /\ last.pre = ApiHandshaked)
            => /\ last.ret = Ok(<<"DEST", SP, "GENERATE", SP, "SIGNATURE_TYPE=", "7", NL>>)
               /\ api = AwaitingDestinationResponse
    /\ \A d, k \in RouterValues :
        /\ (last.op = "handle_response" /\ last.pre = AwaitingDestinationResponse
                /\ last.response = DestKeys(d, k))
                => (last.ret = OkUnit /\ api = DestinationGenerated(d, k))
        /\ (last.op = "generated_destination" /\ last.pre = DestinationGenerated(d, k))
                => (last.ret.tag = "Ok" /\ last.ret.value = d /\ last.ret.private_key = k)
        /\ (last.op = "handle_response" /\ last.pre = AwaitingDestinationResponse
                /\ last.response \in {DestNoPriv(d), DestNoPub(k), DestResult})
                => (last.ret = InvalidMessage /\ api.tag # "DestinationGenerated")

\* generated_destination() has returned the keys of a DEST REPLY.
C24_Witness ==
    /\ last.op = "generated_destination"
    /\ last.pre = DestinationGenerated("D", "P")
    /\ last.ret.tag = "Ok"
    /\ last.ret.value = "D"
    /\ last.ret.private_key = "P"


\* C25: when the socket has received a packet SRC SP header NL P and the
\* caller's buffer holds at least |P| bytes, recv_from returns (|P|, SRC) and
\* the first |P| bytes of the caller's buffer are P.
C25_RecvFromReturnsPayload ==
    (/\ datagram.op = "recv_from"
     /\ datagram.packet = Packet(datagram.peer, datagram.header, datagram.payload)
     /\ RLen(datagram.buf) >= RLen(datagram.payload))
        => /\ datagram.ret = DatagramResult("Ok", RLen(datagram.payload), Norm(datagram.peer))
           /\ Norm(RTake(datagram.buf, RLen(datagram.payload))) = Norm(datagram.payload)

\* C26: a send_to that returns Ok has made the socket send one packet, to
\* the router's UDP port, whose bytes are `3.0 N D`, a newline and the payload;
\* a send_to that returns an error has sent nothing.
C26_SendToSendsOnePacket ==
    datagram.op = "send_to"
        => IF datagram.ret.tag = "Ok"
           THEN /\ Len(datagram.sent) = 1
                /\ datagram.sent[1].to = datagram.options.samv3_udp_port
                /\ datagram.sent[1].body =
                        Norm(Str("3.0") \o Str(SP) \o datagram.options.nickname \o Str(SP)
                                \o datagram.peer \o Str(NL) \o datagram.payload)
                /\ RDrop(datagram.sent[1].body, 6) = Norm(datagram.payload)
           ELSE datagram.sent = <<>>

\* An anonymous session with nickname M has sent a payload that holds a
\* newline and a space to E.
C26_Witness ==
    /\ datagram.op = "send_to"
    /\ datagram.style = "Anonymous"
    /\ datagram.ret.tag = "Ok"
    /\ datagram.options.nickname = Str("M")
    /\ datagram.peer = Str("E")
    /\ RPosition(datagram.payload, NL) = 2
    /\ Len(datagram.sent) = 1


\* A reply whose RESULT is not OK.
RouterErrorLine(line) == HasKey(line.pairs, "RESULT") /\ Get(line.pairs, "RESULT") # "OK"

\* A reply that is a router error, does not parse, or parses to another
\* variant than the state `st` accepts.
ErrorReply(line, st) == RouterErrorLine(line) \/ Parse(line).variant # Expected(st)

\* C27: a reply that is a router error, unparsable or of the wrong variant
\* leaves Poisoned when it is received in Handshaking, SessionCreatePending,
\* SubsessionCreatePending{d} or Active{d, Handshaking}; received in
\* Active{d, Pending(*)} it leaves Poisoned unless it is a router error, and
\* a router error there is the only such reply after which the controller is
\* Active{d, Uninitialized}.
C27_ErrorReplyPoisons ==
    (/\ last.op = "handle_response"
     /\ Awaiting(last.pre)
     /\ ErrorReply(last.response, last.pre))
        => IF last.pre.tag = "Active" /\ last.pre.stream_state.tag = "Pending"
           THEN \/ controller.state = Poisoned
                \/ /\ RouterErrorLine(last.response)
                   /\ controller.state = Active(last.pre.destination, StreamUninitialized)
           ELSE controller.state = Poisoned

\* C28: when no stream operation is in progress on a session and none was
\* dropped, the session's controller is Active{d, Uninitialized}.
C28_IdleIsUninitialized ==
    (/\ pc = "idle"
     /\ \A i \in DOMAIN conns : conns[i].result # "Dropped")
        => /\ controller.state.tag = "Active"
           /\ controller.state.stream_state = StreamUninitialized

\* C29: create_subsession returns its command only from Active{d,
\* Uninitialized}; from Active{d, Handshaking}, Active{d, Handshaked} and
\* Active{d, Pending(*)} it is refused and returns no command.
C29_CreateSubsessionNeedsUninitialized ==
    last.op = "create_subsession"
        => /\ last.ret.tag = "Ok"
                => (last.pre.tag = "Active" /\ last.pre.stream_state = StreamUninitialized)
           /\ (/\ last.pre.tag = "Active"
               /\ last.pre.stream_state.tag \in {"Handshaking", "Handshaked", "Pending"})
                => /\ last.ret.tag \in {"InvalidState", "Panic"}
                   /\ last.ret.command = <<>>
                   /\ controller.state.tag # "SubsessionCreatePending"

\* C30: an operation of the SessionController that returns an error has not
\* moved the controller into a state that awaits a reply.
C30_ErrorNeverAwaits ==
    (/\ last.op \in ControllerOps
     /\ last.ret.tag # "Ok"
     /\ controller.state # last.pre)
        => ~Awaiting(controller.state)


\* C31 as stated: every operation and every handle_response called on a
\* Poisoned controller returns InvalidState, emits no command and leaves
\* the controller Poisoned.
C31_PoisonedReturnsInvalidState ==
    (last.op \in ControllerOps /\ last.pre = Poisoned)
        => /\ last.ret = InvalidState
           /\ controller.state = Poisoned

\* C31, amended: such a call emits no command and leaves the controller
\* Poisoned; it returns InvalidState in a build without debug assertions
\* and aborts at debug_assert!(false) in a build with them.
C31_PoisonedIsAbsorbing ==
    (last.op \in ControllerOps /\ last.pre = Poisoned)
        => /\ last.ret = IF debug_assertions THEN Panic ELSE InvalidState
           /\ last.ret.command = <<>>
           /\ controller.state = Poisoned

\* A reply was fed to a Poisoned controller of a build without debug
\* assertions.
C31_Witness ==
    /\ last.op = "handle_response"
    /\ last.pre = Poisoned
    /\ last.response = HelloOk
    /\ ~debug_assertions
    /\ last.ret = InvalidState
    /\ controller.state = Poisoned


\* C32: create_stream called in Active{d, Handshaked} returns the STREAM
\* CONNECT command for the remote destination and leaves Active{d,
\* Pending(Connect)}, whatever the lengths of d and of the remote destination.
C32_CreateStreamAnyLength ==
    (/\ last.op = "create_stream"
     /\ last.pre.tag = "Active"
     /\ last.pre.stream_state = StreamHandshaked)
        => /\ last.ret = Ok(<<"STREAM", SP, "CONNECT", SP,
                               "ID=", controller.options.nickname, SP,
                               "DESTINATION=", last.remote, SP,
                               "FROM_PORT=", ToString(DefaultStreamOptions.src_port), SP,
                               "TO_PORT=", ToString(DefaultStreamOptions.dst_port), SP,
                               "SILENT=", "false", NL>>)
           /\ controller.state = Active(last.pre.destination, Pending("Connect"))


\* The RESULT tokens that name a router error.
ErrorTokens ==
    {"CANT_REACH_PEER", "DUPLICATED_DEST", "I2P_ERROR", "INVALID_KEY", "KEY_NOT_FOUND",
     "PEER_NOT_FOUND", "TIMEOUT"}

\* C33: a HELLO REPLY or SESSION STATUS line that handle_response parses (the
\* controller awaits a reply) and whose RESULT is a router error token parses to Hello{version: Err} or
\* Session{destination: Err}, whichever other keys it carries, and a line
\* of those two kinds parses to a success only when it carries RESULT=OK.
C33_ParseKeepsRouterError ==
    (/\ last.op = "handle_response"
     /\ Awaiting(last.pre)
     /\ \/ last.response.command = "HELLO" /\ last.response.subcommand = "REPLY"
        \/ last.response.command = "SESSION" /\ last.response.subcommand = "STATUS")
        => /\ Get(last.response.pairs, "RESULT") \in ErrorTokens
                => /\ Parse(last.response).variant
                        = IF last.response.command = "HELLO" THEN "Hello" ELSE "Session"
                   /\ ~Parse(last.response).ok
           /\ Parse(last.response).ok
                => Get(last.response.pairs, "RESULT") = "OK"


\* The tokens of a line in order: what stands between two separators (space,
\* newline), each token a sequence of atoms.  Two separators in a row hold
\* an empty token between them.
RECURSIVE TokensFrom(_, _)
TokensFrom(text, word) ==
    IF text = <<>>
    THEN <<word>>
    ELSE IF Head(text) \in {SP, NL}
         THEN <<word>> \o TokensFrom(Tail(text), <<>>)
         ELSE TokensFrom(Tail(text), Append(word, Head(text)))

\* The tokens of a command before its last byte.
Tokens(command) == TokensFrom(SubSeq(command, 1, Len(command) - 1), <<>>)

\* The tokens of a command that start with `key`.
TokensOf(command, key) ==
    { i \in DOMAIN Tokens(command) :
        Tokens(command)[i] # <<>> /\ Head(Tokens(command)[i]) = key }

\* C34: the SESSION CREATE command of each of the styles STREAM, DATAGRAM and
\* RAW has exactly one DESTINATION token: DESTINATION=TRANSIENT for a
\* Transient destination, DESTINATION=<private_key> for a Persistent one.
C34_OneDestinationToken ==
    (last.op = "create_session" /\ last.ret.tag = "Ok")
        => /\ Cardinality(TokensOf(last.ret.command, "DESTINATION=")) = 1
           /\ \A i \in TokensOf(last.ret.command, "DESTINATION=") :
                Tokens(last.ret.command)[i] =
                    <<"DESTINATION=",
                      IF controller.options.destination.kind = "Transient"
                      THEN "TRANSIENT"
                      ELSE controller.options.destination.private_key>>

\* C35: a SESSION CREATE command is SESSION CREATE followed by key=value
\* tokens, one space between two tokens, one newline at its end and nowhere
\* else, every key starting a token of its own and no key occurring twice.
C35_SessionCreateWellFormed ==
    (last.op = "create_session" /\ last.ret.tag = "Ok")
        => /\ last.ret.command[Len(last.ret.command)] = NL
           /\ \A i \in 1..(Len(last.ret.command) - 1) : last.ret.command[i] # NL
           /\ Tokens(last.ret.command)[1] = <<"SESSION">>
           /\ Tokens(last.ret.command)[2] = <<"CREATE">>
           /\ \A i \in 3..Len(Tokens(last.ret.command)) :
                /\ Len(Tokens(last.ret.command)[i]) = 2
                /\ \A j \in 3..Len(Tokens(last.ret.command)) :
                    Head(Tokens(last.ret.command)[j]) = Head(Tokens(last.ret.command)[i])
                        => j = i

\* C38: recv_from of a repliable session never aborts: for every packet the
\* socket delivers (without a space, without a newline, with its first newline
\* before its first space, with a payload longer than the caller's buffer) it
\* returns Ok or an error value.
C38_RecvFromNeverAborts ==
    datagram.op \in {"recv_from", "recv_other"} => datagram.ret.tag # "Panic"

\* C37: every stream operation of the facade (connect, accept, forward)
\* eventually returns Ok or Err when the router answers each command with a
\* complete line or closes the connection; accept returns as well when the
\* connection is closed, or more than 1024 bytes without a newline arrive,
\* before the line of the peer is complete.
C37_StreamOperationReturns == <>(wire.pc = "returned" /\ wire.ret \in {"Ok", "Err"})

\* Whether `command` is a SESSION ADD command.
SessionAdd(command) == Len(command) >= 3 /\ SubSeq(command, 1, 3) = <<"SESSION", SP, "ADD">>

C39_NewForSubsessionInUninitialized ==
    last.op = "new_for_subsession"
        => /\ last.pre.tag = "Active"
           /\ last.pre.stream_state = StreamUninitialized
           /\ last.ret = OkUnit
           /\ child.state = Active(last.pre.destination, StreamUninitialized)

\* The second subsession of a primary session was built, after a call of
\* create_subsession that failed.
C39_Witness ==
    /\ last.op = "new_for_subsession"
    /\ Len(subsessions.sessions) = 1
    /\ subsessions.started = 2
    /\ returned = "Ok"

====
